---- MODULE Spec2Model ----
(***************************************************************************)
(* Model of the lexical state machine (lexer.rs), its driver get_lexemes   *)
(* (lib.rs) and the backtracking recursive-descent parser built on the     *)
(* token stream (terminals.rs, non_terminals.rs, modulars.rs).             *)
(*                                                                         *)
(* A byte is an integer 0..255, a string is a sequence of bytes, a token   *)
(* is a tuple (<<"Identifier">>, <<"Symbol", "Plus">>, <<"Type", "Int">>)  *)
(* and a (token, lexeme) pair is a 2-tuple <<token, lexeme>>.              *)
(***************************************************************************)
EXTENDS Integers, Sequences, FiniteSets, TLC

VARIABLES
    input,      \* the bytes of the source file (open_file)
    pos,        \* number of bytes get_lexemes has consumed so far
    state,      \* StateMachine.state
    lexeme,     \* StateMachine.lexeme
    call,       \* arguments of the most recent tick: [state, lexeme, c]
    out,        \* pairs returned by the most recent tick (None is <<>>)
    lexemes,    \* get_lexemes' vector of collected pairs
    pc,         \* "main" (TOKEN_STREAM not yet used), "lexing", "lexed",
                \* "parsing" (a ParseBuffer exists), "parsed" or "exit"
    root,       \* result of FunctionDefinition::parse in main
    buffer,     \* a ParseBuffer made by ParseBuffer::new
    forked,     \* the ParseBuffer `fork` made by buffer.fork()
    item        \* what the most recent peek() or next() returned

vars == <<input, pos, state, lexeme, call, out, lexemes, pc, root, buffer, forked, item>>

(***************************************************************************)
(* Character codes of the character literals used by the source.           *)
(***************************************************************************)
Ord ==
    "a" :> 97 @@ "b" :> 98 @@ "c" :> 99 @@ "e" :> 101 @@ "f" :> 102 @@ "i" :> 105 @@ "l" :> 108 @@
    "n" :> 110 @@ "o" :> 111 @@ "r" :> 114 @@ "t" :> 116 @@ "u" :> 117 @@
    "x" :> 120 @@ "y" :> 121 @@ "1" :> 49 @@ "2" :> 50 @@ "3" :> 51 @@
    "4" :> 52 @@ "+" :> 43 @@ "-" :> 45 @@ "*" :> 42 @@ "/" :> 47 @@
    "=" :> 61 @@ ";" :> 59 @@ "(" :> 40 @@ ")" :> 41 @@ "{" :> 123 @@
    "}" :> 125 @@ "_" :> 95 @@ "," :> 44 @@ "." :> 46 @@ "@" :> 64 @@
    "SP" :> 32 @@ "LF" :> 10 @@ "TAB" :> 9 @@ "DEL" :> 127

\* The byte string of a sequence of one-character strings.
B(chars) == [k \in 1..Len(chars) |-> Ord[chars[k]]]

(***************************************************************************)
(* lexer.rs: Token, CharClass, is_whitespace, matches                      *)
(***************************************************************************)
TokLiteralInt == <<"LiteralInt">>
TokLiteralFloat == <<"LiteralFloat">>
TokIdentifier == <<"Identifier">>
TokReturn == <<"Return">>
TokSymbol(sym) == <<"Symbol", sym>>
TokType(ty) == <<"Type", ty>>

Letter == <<"Letter">>
Digit == <<"Digit">>
Unknown == <<"Unknown">>
Symbol(sym) == <<"Symbol", sym>>

\* variant of CharClass::parse: `@` is matched with the letters
CharClass_parse_AtIsLetter(c) ==
    IF c < 33 \/ 126 < c THEN Unknown
    ELSE IF c \in 97..122 \/ c \in 64..90 THEN Letter
    ELSE IF c \in 48..57 THEN Digit
    ELSE IF c = Ord["+"] THEN Symbol("Plus")
    ELSE IF c = Ord["-"] THEN Symbol("Minus")
    ELSE IF c = Ord["*"] THEN Symbol("Multiply")
    ELSE IF c = Ord["/"] THEN Symbol("Divide")
    ELSE IF c = Ord["="] THEN Symbol("Equal")
    ELSE IF c = Ord[";"] THEN Symbol("Semicolon")
    ELSE IF c = Ord["("] THEN Symbol("LeftParen")
    ELSE IF c = Ord[")"] THEN Symbol("RightParen")
    ELSE IF c = Ord["{"] THEN Symbol("LeftCurly")
    ELSE IF c = Ord["}"] THEN Symbol("RightCurly")
    ELSE IF c = Ord["_"] THEN Symbol("Underscore")
    ELSE IF c = Ord[","] THEN Symbol("Comma")
    ELSE IF c = Ord["."] THEN Symbol("Period")
    ELSE Unknown

CharClass_parse(c) ==
    IF c < 33 \/ 126 < c THEN Unknown
    ELSE IF c \in 97..122 \/ c \in 65..90 THEN Letter
    ELSE IF c \in 48..57 THEN Digit
    ELSE IF c = Ord["+"] THEN Symbol("Plus")
    ELSE IF c = Ord["-"] THEN Symbol("Minus")
    ELSE IF c = Ord["*"] THEN Symbol("Multiply")
    ELSE IF c = Ord["/"] THEN Symbol("Divide")
    ELSE IF c = Ord["="] THEN Symbol("Equal")
    ELSE IF c = Ord[";"] THEN Symbol("Semicolon")
    ELSE IF c = Ord["("] THEN Symbol("LeftParen")
    ELSE IF c = Ord[")"] THEN Symbol("RightParen")
    ELSE IF c = Ord["{"] THEN Symbol("LeftCurly")
    ELSE IF c = Ord["}"] THEN Symbol("RightCurly")
    ELSE IF c = Ord["_"] THEN Symbol("Underscore")
    ELSE IF c = Ord[","] THEN Symbol("Comma")
    ELSE IF c = Ord["."] THEN Symbol("Period")
    ELSE Unknown

\* variant of is_whitespace: VT (0x0B) is left out
is_whitespace_NoVT(c) == c \in {9, 10, 12, 13, 32}

is_whitespace(c) == c \in {9, 10, 11, 12, 13, 32}

matches(control, test) == Ord[control] = test

(***************************************************************************)
(* lexer.rs: the outcomes of one tick.  A tick either pushes the byte and  *)
(* moves to a state, flushes through one of the three macros (which reset  *)
(* the machine), or detonates (the process exits).                         *)
(***************************************************************************)
none(st, lx) ==
    [state |-> st, lexeme |-> lx, out |-> <<>>, fatal |-> FALSE]

\* variant of the push: the state changes but the byte is not kept
push_ByteDropped(st, lx, c) ==
    [state |-> st, lexeme |-> lx, out |-> <<>>, fatal |-> FALSE]

push(st, lx, c) ==
    [state |-> st, lexeme |-> Append(lx, c), out |-> <<>>, fatal |-> FALSE]

detonate(st, lx) ==
    [state |-> st, lexeme |-> lx, out |-> <<>>, fatal |-> TRUE]
\* variant of flush_lexeme_as_token!: the lexeme is not truncated by the reset
flush_lexeme_as_token_KeepsLexeme(token, lx) ==
    [state |-> "ScrollToNext", lexeme |-> lx,
     out |-> << <<token, lx>> >>, fatal |-> FALSE]


flush_lexeme_as_token(token, lx) ==
    [state |-> "ScrollToNext", lexeme |-> <<>>,
     out |-> << <<token, lx>> >>, fatal |-> FALSE]

flush_symbol_as_token(sym, c) ==
    [state |-> "ScrollToNext", lexeme |-> <<>>,
     out |-> << <<TokSymbol(sym), <<c>> >> >>, fatal |-> FALSE]

\* variant of flush_lexeme_and_symbol_as_token: the symbol's pair is pushed first
flush_symbol_and_lexeme_as_token(token, lx, sym, c) ==
    [state |-> "ScrollToNext", lexeme |-> <<>>,
     out |-> << <<TokSymbol(sym), <<c>> >>, <<token, lx>> >>, fatal |-> FALSE]

flush_lexeme_and_symbol_as_token(token, lx, sym, c) ==
    [state |-> "ScrollToNext", lexeme |-> <<>>,
     out |-> << <<token, lx>>, <<TokSymbol(sym), <<c>> >> >>, fatal |-> FALSE]

IsSymbol(cls) == cls[1] = "Symbol"

\* Letter | Symbol(Sym::Underscore) | Digit
IsContinuation(cls) == cls = Letter \/ cls = Symbol("Underscore") \/ cls = Digit

(***************************************************************************)
(* lexer.rs: StateMachine::tick, one definition per match arm              *)
(***************************************************************************)

\* variant of the ScrollToNext arm: `r` starts a generic identifier
ScrollToNext_NoReturnPrefix(lx, c) ==
    IF is_whitespace(c) THEN none("ScrollToNext", lx)
    ELSE LET cls == CharClass_parse(c) IN
         IF cls = Letter /\ matches("i", c) THEN push("MaybeTypeInt2", lx, c)
         ELSE IF cls = Letter /\ matches("f", c) THEN push("MaybeTypeFloat2", lx, c)
         ELSE IF cls = Letter \/ cls = Symbol("Underscore") THEN push("Identifier", lx, c)
         ELSE IF cls = Digit THEN push("NumberDigit", lx, c)
         ELSE IF IsSymbol(cls) THEN flush_symbol_as_token(cls[2], c)
         ELSE detonate("ScrollToNext", lx)


ScrollToNext(lx, c) ==
    IF is_whitespace(c) THEN none("ScrollToNext", lx)
    ELSE LET cls == CharClass_parse(c) IN
         IF cls = Letter /\ matches("i", c) THEN push("MaybeTypeInt2", lx, c)
         ELSE IF cls = Letter /\ matches("f", c) THEN push("MaybeTypeFloat2", lx, c)
         ELSE IF cls = Letter /\ matches("r", c) THEN push("MaybeKeywordReturn2", lx, c)
         ELSE IF cls = Letter \/ cls = Symbol("Underscore") THEN push("Identifier", lx, c)
         ELSE IF cls = Digit THEN push("NumberDigit", lx, c)
         ELSE IF IsSymbol(cls) THEN flush_symbol_as_token(cls[2], c)
         ELSE detonate("ScrollToNext", lx)

\* variant of the NumberDigit arm: a symbol flushes the digits as LiteralFloat
NumberDigit_FloatOnSymbol(lx, c) ==
    IF is_whitespace(c) THEN flush_lexeme_as_token(TokLiteralInt, lx)
    ELSE LET cls == CharClass_parse(c) IN
         IF cls = Digit THEN push("NumberDigit", lx, c)
         ELSE IF cls = Symbol("Period") THEN push("NumberFloat", lx, c)
         ELSE IF IsSymbol(cls)
              THEN flush_lexeme_and_symbol_as_token(TokLiteralFloat, lx, cls[2], c)
         ELSE detonate("NumberDigit", lx)

NumberDigit(lx, c) ==
    IF is_whitespace(c) THEN flush_lexeme_as_token(TokLiteralInt, lx)
    ELSE LET cls == CharClass_parse(c) IN
         IF cls = Digit THEN push("NumberDigit", lx, c)
         ELSE IF cls = Symbol("Period") THEN push("NumberFloat", lx, c)
         ELSE IF IsSymbol(cls)
              THEN flush_lexeme_and_symbol_as_token(TokLiteralInt, lx, cls[2], c)
         ELSE detonate("NumberDigit", lx)

\* variant of the NumberFloat arm: a letter is pushed and the machine goes on
\* in Identifier
NumberFloat_LetterAccepted(lx, c) ==
    IF is_whitespace(c) THEN flush_lexeme_as_token(TokLiteralFloat, lx)
    ELSE LET cls == CharClass_parse(c) IN
         IF cls = Digit THEN push("NumberDigit", lx, c)
         ELSE IF cls = Letter THEN push("Identifier", lx, c)
         ELSE IF IsSymbol(cls)
              THEN flush_lexeme_and_symbol_as_token(TokLiteralFloat, lx, cls[2], c)
         ELSE detonate("NumberFloat", lx)

NumberFloat(lx, c) ==
    IF is_whitespace(c) THEN flush_lexeme_as_token(TokLiteralFloat, lx)
    ELSE LET cls == CharClass_parse(c) IN
         IF cls = Digit THEN push("NumberDigit", lx, c)
         ELSE IF IsSymbol(cls)
              THEN flush_lexeme_and_symbol_as_token(TokLiteralFloat, lx, cls[2], c)
         ELSE detonate("NumberFloat", lx)

Identifier(lx, c) ==
    IF is_whitespace(c) THEN flush_lexeme_as_token(TokIdentifier, lx)
    ELSE LET cls == CharClass_parse(c) IN
         IF IsContinuation(cls) THEN push("Identifier", lx, c)
         ELSE IF IsSymbol(cls)
              THEN flush_lexeme_and_symbol_as_token(TokLiteralInt, lx, cls[2], c)
         ELSE detonate("Identifier", lx)

\* The shape shared by the arms of the Maybe* states: `self` is the state of
\* the arm, `expected` the letter that advances to `onward`, `wsToken` the
\* token the arm flushes on whitespace.
MaybeArm(self, lx, c, expected, onward, wsToken) ==
    IF is_whitespace(c) THEN flush_lexeme_as_token(wsToken, lx)
    ELSE LET cls == CharClass_parse(c) IN
         IF cls = Letter /\ matches(expected, c) THEN push(onward, lx, c)
         ELSE IF IsContinuation(cls) THEN push("Identifier", lx, c)
         ELSE IF IsSymbol(cls)
              THEN flush_lexeme_and_symbol_as_token(TokIdentifier, lx, cls[2], c)
         ELSE detonate(self, lx)

\* The shape shared by the arms of the Confirm* states.
ConfirmArm(self, lx, c, wsToken) ==
    IF is_whitespace(c) THEN flush_lexeme_as_token(wsToken, lx)
    ELSE LET cls == CharClass_parse(c) IN
         IF IsContinuation(cls) THEN push("Identifier", lx, c)
         ELSE IF IsSymbol(cls)
              THEN flush_lexeme_and_symbol_as_token(TokIdentifier, lx, cls[2], c)
         ELSE detonate(self, lx)

\* variant of the ConfirmTypeInt arm: a continuation byte is pushed without
\* leaving ConfirmTypeInt
ConfirmTypeInt_NoFallback(lx, c) ==
    IF is_whitespace(c) THEN flush_lexeme_as_token(TokType("Int"), lx)
    ELSE LET cls == CharClass_parse(c) IN
         IF IsContinuation(cls) THEN push("ConfirmTypeInt", lx, c)
         ELSE IF IsSymbol(cls)
              THEN flush_lexeme_and_symbol_as_token(TokIdentifier, lx, cls[2], c)
         ELSE detonate("ConfirmTypeInt", lx)

\* variant of the ConfirmTypeFloat arm: whitespace flushes the word as Identifier
ConfirmTypeFloat_IdentifierOnWhitespace(lx, c) ==
    ConfirmArm("ConfirmTypeFloat", lx, c, TokIdentifier)

MaybeTypeInt2(lx, c) ==
    MaybeArm("MaybeTypeInt2", lx, c, "n", "MaybeTypeInt3", TokIdentifier)
MaybeTypeInt3(lx, c) ==
    MaybeArm("MaybeTypeInt3", lx, c, "t", "ConfirmTypeInt", TokIdentifier)
ConfirmTypeInt(lx, c) ==
    ConfirmArm("ConfirmTypeInt", lx, c, TokType("Int"))

MaybeTypeFloat2(lx, c) ==
    MaybeArm("MaybeTypeFloat2", lx, c, "l", "MaybeTypeFloat3", TokIdentifier)
MaybeTypeFloat3(lx, c) ==
    MaybeArm("MaybeTypeFloat3", lx, c, "o", "MaybeTypeFloat4", TokIdentifier)
MaybeTypeFloat4(lx, c) ==
    MaybeArm("MaybeTypeFloat4", lx, c, "a", "MaybeTypeFloat5", TokIdentifier)
MaybeTypeFloat5(lx, c) ==
    MaybeArm("MaybeTypeFloat5", lx, c, "t", "ConfirmTypeFloat", TokIdentifier)
ConfirmTypeFloat(lx, c) ==
    ConfirmArm("ConfirmTypeFloat", lx, c, TokType("Float"))

MaybeKeywordReturn2(lx, c) ==
    MaybeArm("MaybeKeywordReturn2", lx, c, "e", "MaybeKeywordReturn3", TokIdentifier)
MaybeKeywordReturn3(lx, c) ==
    MaybeArm("MaybeKeywordReturn3", lx, c, "t", "MaybeKeywordReturn4", TokIdentifier)
MaybeKeywordReturn4(lx, c) ==
    MaybeArm("MaybeKeywordReturn4", lx, c, "u", "MaybeKeywordReturn5", TokIdentifier)
MaybeKeywordReturn5(lx, c) ==
    MaybeArm("MaybeKeywordReturn5", lx, c, "r", "MaybeKeywordReturn6", TokIdentifier)
MaybeKeywordReturn6(lx, c) ==
    MaybeArm("MaybeKeywordReturn6", lx, c, "n", "ConfirmKeywordReturn", TokReturn)
ConfirmKeywordReturn(lx, c) ==
    ConfirmArm("ConfirmKeywordReturn", lx, c, TokReturn)

tick(st, lx, c) ==
    CASE st = "ScrollToNext" -> ScrollToNext(lx, c)
      [] st = "NumberDigit" -> NumberDigit(lx, c)
      [] st = "NumberFloat" -> NumberFloat(lx, c)
      [] st = "Identifier" -> Identifier(lx, c)
      [] st = "MaybeTypeInt2" -> MaybeTypeInt2(lx, c)
      [] st = "MaybeTypeInt3" -> MaybeTypeInt3(lx, c)
      [] st = "ConfirmTypeInt" -> ConfirmTypeInt(lx, c)
      [] st = "MaybeTypeFloat2" -> MaybeTypeFloat2(lx, c)
      [] st = "MaybeTypeFloat3" -> MaybeTypeFloat3(lx, c)
      [] st = "MaybeTypeFloat4" -> MaybeTypeFloat4(lx, c)
      [] st = "MaybeTypeFloat5" -> MaybeTypeFloat5(lx, c)
      [] st = "ConfirmTypeFloat" -> ConfirmTypeFloat(lx, c)
      [] st = "MaybeKeywordReturn2" -> MaybeKeywordReturn2(lx, c)
      [] st = "MaybeKeywordReturn3" -> MaybeKeywordReturn3(lx, c)
      [] st = "MaybeKeywordReturn4" -> MaybeKeywordReturn4(lx, c)
      [] st = "MaybeKeywordReturn5" -> MaybeKeywordReturn5(lx, c)
      [] st = "MaybeKeywordReturn6" -> MaybeKeywordReturn6(lx, c)
      [] st = "ConfirmKeywordReturn" -> ConfirmKeywordReturn(lx, c)

\* variant of finalize: the dummy byte is a semicolon
finalize_AsSemicolon(st, lx) == tick(st, lx, 59)

\* variant of finalize: nothing is flushed at end-of-input
finalize_NoFlush(st, lx) == none("ScrollToNext", <<>>)

\* finalize is tick(0xA)
finalize(st, lx) == tick(st, lx, 10)

(***************************************************************************)
(* lib.rs: get_lexemes as a function of the bytes of the file: the ticks   *)
(* from byte `k` on, then finalize.  A fatal tick exits the process, so    *)
(* nothing is returned.                                                    *)
(***************************************************************************)
RECURSIVE get_lexemes_from(_, _, _, _, _)
get_lexemes_from(source, k, st, lx, acc) ==
    IF k > Len(source)
    THEN [fatal |-> FALSE, lexemes |-> acc \o finalize(st, lx).out]
    ELSE LET r == tick(st, lx, source[k])
         IN  IF r.fatal THEN [fatal |-> TRUE, lexemes |-> <<>>]
             ELSE get_lexemes_from(source, k + 1, r.state, r.lexeme, acc \o r.out)

get_lexemes(source) == get_lexemes_from(source, 1, "ScrollToNext", <<>>, <<>>)

(***************************************************************************)
(* lib.rs (syntactical analyzer): ParseBuffer.  The buffer is a peekable   *)
(* iterator over the static token stream `ts`; it is modelled by the       *)
(* number `p` of pairs it has yielded.  fork() copies p, `*buffer = fork`  *)
(* overwrites the caller's p.  A parse result carries the caller's cursor  *)
(* after the call in `pos`.                                                *)
(***************************************************************************)
peek_is_none(ts, p) == p >= Len(ts)

next(ts, p) == ts[p + 1]
(***************************************************************************)
(* The ParseBuffer itself: a Peekable over the slice iterator of the token *)
(* stream.  `iter` is the number of pairs the slice iterator has yielded;  *)
(* `peeked` is Peekable's cache, <<>> when empty and <<v>> when peek() has *)
(* stored the Option v, itself <<>> for None and <<pair>> for Some(pair).  *)
(***************************************************************************)
NoBuffer == [iter |-> -1, peeked |-> <<>>]

\* slice::Iter::next
Iter_next(ts, i) ==
    IF i < Len(ts) THEN [iter |-> i + 1, item |-> <<ts[i + 1]>>]
    ELSE [iter |-> i, item |-> <<>>]

ParseBuffer_new(ts) == [iter |-> 0, peeked |-> <<>>]

ParseBuffer_peek(ts, b) ==
    IF b.peeked = <<>>
    THEN LET n == Iter_next(ts, b.iter)
         IN  [buffer |-> [iter |-> n.iter, peeked |-> <<n.item>>], item |-> n.item]
    ELSE [buffer |-> b, item |-> b.peeked[1]]

\* variant of ParseBuffer::fork: the slice iterator is cloned, the cache is not
ParseBuffer_fork_CacheDropped(b) == [iter |-> b.iter, peeked |-> <<>>]

ParseBuffer_fork(b) == [iter |-> b.iter, peeked |-> b.peeked]

ParseBuffer_next(ts, b) ==
    IF b.peeked # <<>>
    THEN [buffer |-> [iter |-> b.iter, peeked |-> <<>>], item |-> b.peeked[1]]
    ELSE LET n == Iter_next(ts, b.iter)
         IN  [buffer |-> [iter |-> n.iter, peeked |-> <<>>], item |-> n.item]


Ok(p, node) == [ok |-> TRUE, pos |-> p, node |-> node, err |-> <<>>]

Err(p, err) == [ok |-> FALSE, pos |-> p, node |-> <<>>, err |-> err]

\* "Expected `{label}`, but found nothing instead"
ExpectedFoundNothing(label) == <<"ExpectedFoundNothing", label>>

\* "Expected `{label}`, but found `{lexeme}` instead"
ExpectedFound(label, lx) == <<"ExpectedFound", label, lx>>

\* "Expected either `{a} {b}` for {label}, but found something else instead"
ExpectedEither(a, b, label) == <<"ExpectedEither", a, b, label>>

\* "While parsing {label}...\n    {err}"
WhileParsing(label, err) == <<"WhileParsing", label, err>>

NoneNode == [rule |-> "None"]

(***************************************************************************)
(* terminals.rs: impl_terminal_parse and its instances.  `pats` is the set *)
(* of tokens the instance's $token_pat matches.                            *)
(***************************************************************************)
\* variant of impl_terminal_parse: the fork is not committed on a match
impl_terminal_parse_NotCommitted(label, pats, ts, p) ==
    IF peek_is_none(ts, p) THEN Err(p, ExpectedFoundNothing(label))
    ELSE LET pair == next(ts, p) IN
         IF pair[1] \in pats
         THEN Ok(p, [rule |-> label, token |-> pair[1], lexeme |-> pair[2]])
         ELSE Err(p, ExpectedFound(label, pair[2]))

impl_terminal_parse(label, pats, ts, p) ==
    IF peek_is_none(ts, p) THEN Err(p, ExpectedFoundNothing(label))
    ELSE LET pair == next(ts, p) IN
         IF pair[1] \in pats
         THEN Ok(p + 1, [rule |-> label, token |-> pair[1], lexeme |-> pair[2]])
         ELSE Err(p, ExpectedFound(label, pair[2]))

terminal_lexeme_signature(node) == node.lexeme

Identifier_parse(ts, p) == impl_terminal_parse("{identifier}", {TokIdentifier}, ts, p)
Type_parse(ts, p) ==
    impl_terminal_parse("{type}", {TokType("Int"), TokType("Float")}, ts, p)
Equals_parse(ts, p) == impl_terminal_parse("=", {TokSymbol("Equal")}, ts, p)
Semicolon_parse(ts, p) == impl_terminal_parse(";", {TokSymbol("Semicolon")}, ts, p)
Return_parse(ts, p) == impl_terminal_parse("return", {TokReturn}, ts, p)
\* the tokens of the variant Token::Literal(_) that terminals.rs matches: the
\* integer and the float literal
Token_Literal == {TokLiteralInt, TokLiteralFloat}

\* variant of Literal's parse: only an integer literal is matched
Literal_parse_IntegerOnly(ts, p) ==
    impl_terminal_parse("{literal}", {TokLiteralInt}, ts, p)

Literal_parse(ts, p) == impl_terminal_parse("{literal}", Token_Literal, ts, p)
LeftParen_parse(ts, p) == impl_terminal_parse("(", {TokSymbol("LeftParen")}, ts, p)
RightParen_parse(ts, p) == impl_terminal_parse(")", {TokSymbol("RightParen")}, ts, p)
Plus_parse(ts, p) == impl_terminal_parse("+", {TokSymbol("Plus")}, ts, p)
Minus_parse(ts, p) == impl_terminal_parse("-", {TokSymbol("Minus")}, ts, p)
Multiply_parse(ts, p) == impl_terminal_parse("*", {TokSymbol("Multiply")}, ts, p)
Divide_parse(ts, p) == impl_terminal_parse("/", {TokSymbol("Divide")}, ts, p)

\* variant of Comma's parse: a comma is matched but the fork is not committed
Comma_parse_NoAdvance(ts, p) ==
    impl_terminal_parse_NotCommitted(",", {TokSymbol("Comma")}, ts, p)


Comma_parse(ts, p) == impl_terminal_parse(",", {TokSymbol("Comma")}, ts, p)
LeftCurly_parse(ts, p) == impl_terminal_parse("{", {TokSymbol("LeftCurly")}, ts, p)
RightCurly_parse(ts, p) == impl_terminal_parse("}", {TokSymbol("RightCurly")}, ts, p)

SP == <<32>>

(***************************************************************************)
(* The two ways the rules consume a Result.  Match is a `match` on         *)
(* Ok(_) / Err(_); Try is the `?` operator inside a parse whose caller's   *)
(* buffer is at `p`: an Err returns from the rule, the fork is dropped.    *)
(***************************************************************************)
Match(r, OnOk(_), OnErr(_)) == IF r.ok THEN OnOk(r) ELSE OnErr(r)

Try(r, p, Then(_)) == IF r.ok THEN Then(r) ELSE Err(p, r.err)

(***************************************************************************)
(* non_terminals.rs: the arithmetic chain, leaf first                      *)
(***************************************************************************)
Factor_parse(ts, p) ==
    IF peek_is_none(ts, p) THEN Err(p, ExpectedFoundNothing("Factor"))
    ELSE Match(Identifier_parse(ts, p),
           LAMBDA r1 : Ok(r1.pos, [rule |-> "Factor", variant |-> "Identifier",
                                   inner |-> r1.node]),
           LAMBDA e1 :
         Match(Literal_parse(ts, p),
           LAMBDA r2 : Ok(r2.pos, [rule |-> "Factor", variant |-> "Literal",
                                   inner |-> r2.node]),
           LAMBDA e2 : Err(p, ExpectedEither("{identifier}", "{literal}", "Factor"))))

Factor_lexeme_signature(node) == terminal_lexeme_signature(node.inner)
\* variant of FactorExtend::parse: after the operand, one more operator and
\* operand are taken when they follow
FactorExtend_parse_Repeats(ts, p) ==
    IF peek_is_none(ts, p) THEN Ok(p, NoneNode)
    ELSE Match(Multiply_parse(ts, p),
           LAMBDA m : Try(Factor_parse(ts, m.pos), p,
             LAMBDA f :
               Match(Multiply_parse(ts, f.pos),
                 LAMBDA m2 : Match(Factor_parse(ts, m2.pos),
                   LAMBDA f2 : Ok(f2.pos, [rule |-> "FactorExtend",
                                           variant |-> "Multiply",
                                           op |-> m.node, factor |-> f.node]),
                   LAMBDA e3 : Ok(f.pos, [rule |-> "FactorExtend",
                                          variant |-> "Multiply",
                                          op |-> m.node, factor |-> f.node])),
                 LAMBDA e2 : Ok(f.pos, [rule |-> "FactorExtend",
                                        variant |-> "Multiply",
                                        op |-> m.node, factor |-> f.node]))),
           LAMBDA e1 :
         Match(Divide_parse(ts, p),
           LAMBDA d : Try(Factor_parse(ts, d.pos), p,
             LAMBDA f :
               Match(Divide_parse(ts, f.pos),
                 LAMBDA d2 : Match(Factor_parse(ts, d2.pos),
                   LAMBDA f2 : Ok(f2.pos, [rule |-> "FactorExtend",
                                           variant |-> "Divide",
                                           op |-> d.node, factor |-> f.node]),
                   LAMBDA e3 : Ok(f.pos, [rule |-> "FactorExtend",
                                          variant |-> "Divide",
                                          op |-> d.node, factor |-> f.node])),
                 LAMBDA e2 : Ok(f.pos, [rule |-> "FactorExtend",
                                        variant |-> "Divide",
                                        op |-> d.node, factor |-> f.node]))),
           LAMBDA e2 : Ok(p, NoneNode)))


FactorExtend_parse(ts, p) ==
    IF peek_is_none(ts, p) THEN Ok(p, NoneNode)
    ELSE Match(Multiply_parse(ts, p),
           LAMBDA m : Try(Factor_parse(ts, m.pos), p,
             LAMBDA f : Ok(f.pos, [rule |-> "FactorExtend", variant |-> "Multiply",
                                   op |-> m.node, factor |-> f.node])),
           LAMBDA e1 :
         Match(Divide_parse(ts, p),
           LAMBDA d : Try(Factor_parse(ts, d.pos), p,
             LAMBDA f : Ok(f.pos, [rule |-> "FactorExtend", variant |-> "Divide",
                                   op |-> d.node, factor |-> f.node])),
           LAMBDA e2 : Ok(p, NoneNode)))

FactorExtend_lexeme_signature(node) ==
    terminal_lexeme_signature(node.op) \o SP \o Factor_lexeme_signature(node.factor)
\* variant of Term::parse: no check of peek() before the fields
Term_parse_NoPeek(ts, p) ==
    Try(Factor_parse(ts, p), p, LAMBDA r1 :
    Try(FactorExtend_parse(ts, r1.pos), p, LAMBDA r2 :
    Ok(r2.pos, [rule |-> "Term", factor |-> r1.node, extend |-> r2.node])))


Term_parse(ts, p) ==
    IF peek_is_none(ts, p) THEN Err(p, ExpectedFoundNothing("Term"))
    ELSE Try(Factor_parse(ts, p), p, LAMBDA r1 :
         Try(FactorExtend_parse(ts, r1.pos), p, LAMBDA r2 :
         Ok(r2.pos, [rule |-> "Term", factor |-> r1.node, extend |-> r2.node])))

Term_lexeme_signature(node) ==
    Factor_lexeme_signature(node.factor) \o
    (IF node.extend # NoneNode
     THEN SP \o FactorExtend_lexeme_signature(node.extend)
     ELSE <<>>)
\* variant of TermExtend::parse: an operator whose operand fails is no
\* extension
TermExtend_parse_OperandOptional(ts, p) ==
    IF peek_is_none(ts, p) THEN Ok(p, NoneNode)
    ELSE Match(Plus_parse(ts, p),
           LAMBDA a : Match(Term_parse(ts, a.pos),
             LAMBDA t : Ok(t.pos, [rule |-> "TermExtend", variant |-> "Add",
                                   op |-> a.node, term |-> t.node]),
             LAMBDA terr : Ok(p, NoneNode)),
           LAMBDA e1 :
         Match(Minus_parse(ts, p),
           LAMBDA s : Match(Term_parse(ts, s.pos),
             LAMBDA t : Ok(t.pos, [rule |-> "TermExtend", variant |-> "Subtract",
                                   op |-> s.node, term |-> t.node]),
             LAMBDA terr : Ok(p, NoneNode)),
           LAMBDA e2 : Ok(p, NoneNode)))


TermExtend_parse(ts, p) ==
    IF peek_is_none(ts, p) THEN Ok(p, NoneNode)
    ELSE Match(Plus_parse(ts, p),
           LAMBDA a : Try(Term_parse(ts, a.pos), p,
             LAMBDA t : Ok(t.pos, [rule |-> "TermExtend", variant |-> "Add",
                                   op |-> a.node, term |-> t.node])),
           LAMBDA e1 :
         Match(Minus_parse(ts, p),
           LAMBDA s : Try(Term_parse(ts, s.pos), p,
             LAMBDA t : Ok(t.pos, [rule |-> "TermExtend", variant |-> "Subtract",
                                   op |-> s.node, term |-> t.node])),
           LAMBDA e2 : Ok(p, NoneNode)))

TermExtend_lexeme_signature(node) ==
    terminal_lexeme_signature(node.op) \o SP \o Term_lexeme_signature(node.term)

ArithmeticExpression_parse(ts, p) ==
    IF peek_is_none(ts, p) THEN Err(p, ExpectedFoundNothing("Arithmetic Expression"))
    ELSE Try(Term_parse(ts, p), p, LAMBDA r1 :
         Try(TermExtend_parse(ts, r1.pos), p, LAMBDA r2 :
         Ok(r2.pos, [rule |-> "ArithmeticExpression",
                     lhs_term |-> r1.node, extend |-> r2.node])))

ArithmeticExpression_lexeme_signature(node) ==
    Term_lexeme_signature(node.lhs_term) \o
    (IF node.extend # NoneNode
     THEN SP \o TermExtend_lexeme_signature(node.extend)
     ELSE <<>>)

(***************************************************************************)
(* non_terminals.rs: expressions, statements, parameters                   *)
(***************************************************************************)
TypecastExpression_parse(ts, p) ==
    IF peek_is_none(ts, p) THEN Err(p, ExpectedFoundNothing("Typecast Expression"))
    ELSE Try(LeftParen_parse(ts, p), p, LAMBDA r1 :
         Try(Type_parse(ts, r1.pos), p, LAMBDA r2 :
         Try(RightParen_parse(ts, r2.pos), p, LAMBDA r3 :
         Try(Identifier_parse(ts, r3.pos), p, LAMBDA r4 :
         Ok(r4.pos, [rule |-> "TypecastExpression", left_paren |-> r1.node,
                     type_ |-> r2.node, right_paren |-> r3.node,
                     ident |-> r4.node])))))

TypecastExpression_lexeme_signature(node) ==
    terminal_lexeme_signature(node.left_paren) \o
    terminal_lexeme_signature(node.type_) \o
    terminal_lexeme_signature(node.right_paren) \o
    terminal_lexeme_signature(node.ident)
\* variant of Expression::parse: the fork of the second alternative is not
\* committed
Expression_parse_TypecastNotCommitted(ts, p) ==
    IF peek_is_none(ts, p) THEN Err(p, ExpectedFoundNothing("Expression"))
    ELSE Match(ArithmeticExpression_parse(ts, p),
           LAMBDA r1 : Ok(r1.pos, [rule |-> "Expression", variant |-> "Arithmetic",
                                   inner |-> r1.node]),
           LAMBDA e1 :
         Match(TypecastExpression_parse(ts, p),
           LAMBDA r2 : Ok(p, [rule |-> "Expression", variant |-> "Typecast",
                              inner |-> r2.node]),
           LAMBDA e2 : Err(p, ExpectedEither("Arithmetic Expression",
                                             "Typecast Expression", "Expression"))))


Expression_parse(ts, p) ==
    IF peek_is_none(ts, p) THEN Err(p, ExpectedFoundNothing("Expression"))
    ELSE Match(ArithmeticExpression_parse(ts, p),
           LAMBDA r1 : Ok(r1.pos, [rule |-> "Expression", variant |-> "Arithmetic",
                                   inner |-> r1.node]),
           LAMBDA e1 :
         Match(TypecastExpression_parse(ts, p),
           LAMBDA r2 : Ok(r2.pos, [rule |-> "Expression", variant |-> "Typecast",
                                   inner |-> r2.node]),
           LAMBDA e2 : Err(p, ExpectedEither("Arithmetic Expression",
                                             "Typecast Expression", "Expression"))))

Expression_lexeme_signature(node) ==
    IF node.variant = "Arithmetic"
    THEN ArithmeticExpression_lexeme_signature(node.inner)
    ELSE TypecastExpression_lexeme_signature(node.inner)

ReturnStatement_parse(ts, p) ==
    IF peek_is_none(ts, p) THEN Err(p, ExpectedFoundNothing("Return Statement"))
    ELSE Try(Return_parse(ts, p), p, LAMBDA r1 :
         Try(Expression_parse(ts, r1.pos), p, LAMBDA r2 :
         Ok(r2.pos, [rule |-> "ReturnStatement", return_ |-> r1.node,
                     expression |-> r2.node])))

ReturnStatement_lexeme_signature(node) ==
    terminal_lexeme_signature(node.return_) \o SP \o
    Expression_lexeme_signature(node.expression)

\* variant of AssignmentStatement::parse: when the expression fails, the node
\* parsed so far is returned
AssignmentStatement_parse_Partial(ts, p) ==
    IF peek_is_none(ts, p) THEN Err(p, ExpectedFoundNothing("Assignment Statement"))
    ELSE Try(Identifier_parse(ts, p), p, LAMBDA r1 :
         Try(Equals_parse(ts, r1.pos), p, LAMBDA r2 :
         Match(Expression_parse(ts, r2.pos),
           LAMBDA r3 :
             Ok(r3.pos, [rule |-> "AssignmentStatement", lhs_identifier |-> r1.node,
                         equals |-> r2.node, expression |-> r3.node]),
           LAMBDA e3 :
             Ok(r2.pos, [rule |-> "AssignmentStatement", lhs_identifier |-> r1.node,
                         equals |-> r2.node, expression |-> NoneNode]))))

AssignmentStatement_parse(ts, p) ==
    IF peek_is_none(ts, p) THEN Err(p, ExpectedFoundNothing("Assignment Statement"))
    ELSE Try(Identifier_parse(ts, p), p, LAMBDA r1 :
         Try(Equals_parse(ts, r1.pos), p, LAMBDA r2 :
         Try(Expression_parse(ts, r2.pos), p, LAMBDA r3 :
         Ok(r3.pos, [rule |-> "AssignmentStatement", lhs_identifier |-> r1.node,
                     equals |-> r2.node, expression |-> r3.node]))))

AssignmentStatement_lexeme_signature(node) ==
    terminal_lexeme_signature(node.lhs_identifier) \o SP \o
    terminal_lexeme_signature(node.equals) \o SP \o
    Expression_lexeme_signature(node.expression)
\* variant of Statement::parse: when both alternatives fail, the error of the
\* last one is returned
Statement_parse_LastError(ts, p) ==
    IF peek_is_none(ts, p) THEN Err(p, ExpectedFoundNothing("Statement"))
    ELSE Match(AssignmentStatement_parse(ts, p),
           LAMBDA r1 : Ok(r1.pos, [rule |-> "Statement", variant |-> "Assignment",
                                   inner |-> r1.node]),
           LAMBDA e1 :
         Match(ReturnStatement_parse(ts, p),
           LAMBDA r2 : Ok(r2.pos, [rule |-> "Statement", variant |-> "Return",
                                   inner |-> r2.node]),
           LAMBDA e2 : Err(p, e2.err)))


Statement_parse(ts, p) ==
    IF peek_is_none(ts, p) THEN Err(p, ExpectedFoundNothing("Statement"))
    ELSE Match(AssignmentStatement_parse(ts, p),
           LAMBDA r1 : Ok(r1.pos, [rule |-> "Statement", variant |-> "Assignment",
                                   inner |-> r1.node]),
           LAMBDA e1 :
         Match(ReturnStatement_parse(ts, p),
           LAMBDA r2 : Ok(r2.pos, [rule |-> "Statement", variant |-> "Return",
                                   inner |-> r2.node]),
           LAMBDA e2 : Err(p, ExpectedEither("Assignment Statement",
                                             "Return Statement", "Statement"))))

Statement_lexeme_signature(node) ==
    IF node.variant = "Assignment"
    THEN AssignmentStatement_lexeme_signature(node.inner)
    ELSE ReturnStatement_lexeme_signature(node.inner)

FunctionParameter_parse(ts, p) ==
    IF peek_is_none(ts, p) THEN Err(p, ExpectedFoundNothing("Function Parameter"))
    ELSE Try(Type_parse(ts, p), p, LAMBDA r1 :
         Try(Identifier_parse(ts, r1.pos), p, LAMBDA r2 :
         Ok(r2.pos, [rule |-> "FunctionParameter", type_ |-> r1.node,
                     identifier |-> r2.node])))

FunctionParameter_lexeme_signature(node) ==
    terminal_lexeme_signature(node.type_) \o SP \o
    terminal_lexeme_signature(node.identifier)

(***************************************************************************)
(* lib.rs: the Parse and ParseDisplay traits.  E::parse, E::parse_label    *)
(* and e.lexeme_signature() of a type parameter E are resolved by the name *)
(* of the rule.                                                            *)
(***************************************************************************)
Parse_parse(E, ts, p) ==
    CASE E = "Identifier" -> Identifier_parse(ts, p)
      [] E = "Type" -> Type_parse(ts, p)
      [] E = "Comma" -> Comma_parse(ts, p)
      [] E = "Semicolon" -> Semicolon_parse(ts, p)
      [] E = "Factor" -> Factor_parse(ts, p)
      [] E = "Term" -> Term_parse(ts, p)
      [] E = "Expression" -> Expression_parse(ts, p)
      [] E = "Statement" -> Statement_parse(ts, p)
      [] E = "FunctionParameter" -> FunctionParameter_parse(ts, p)

Parse_parse_label(E) ==
    CASE E = "Identifier" -> "{identifier}"
      [] E = "Type" -> "{type}"
      [] E = "Comma" -> ","
      [] E = "Semicolon" -> ";"
      [] E = "Factor" -> "Factor"
      [] E = "Term" -> "Term"
      [] E = "Expression" -> "Expression"
      [] E = "Statement" -> "Statement"
      [] E = "FunctionParameter" -> "Function Parameter"

ParseDisplay_lexeme_signature(node) ==
    CASE node.rule = "Factor" -> Factor_lexeme_signature(node)
      [] node.rule = "Term" -> Term_lexeme_signature(node)
      [] node.rule = "Expression" -> Expression_lexeme_signature(node)
      [] node.rule = "Statement" -> Statement_lexeme_signature(node)
      [] node.rule = "FunctionParameter" -> FunctionParameter_lexeme_signature(node)
      [] OTHER -> terminal_lexeme_signature(node)

(***************************************************************************)
(* modulars.rs: Delimited<E, D> and Terminated<E, D>                       *)
(***************************************************************************)
\* a failed assert! or unwrap() in lexeme_signature
Panic == <<"panic">>

Delimited_parse_label(E, D) ==
    <<"Delimited Sequence of", Parse_parse_label(E), "by", Parse_parse_label(D)>>
\* variant of the `loop` of Delimited::parse: an item that fails after a
\* delimiter ends the list
RECURSIVE Delimited_loop_EndsAtDelimiter(_, _, _, _, _, _)
Delimited_loop_EndsAtDelimiter(E, D, ts, p, fork, items) ==
    Match(Parse_parse(E, ts, fork),
      LAMBDA e :
        Match(Parse_parse(D, ts, e.pos),
          LAMBDA d : Delimited_loop_EndsAtDelimiter(E, D, ts, p, d.pos,
                                    Append(items, <<e.node, d.node>>)),
          LAMBDA derr : Ok(e.pos, [rule |-> "Delimited",
                                   items |-> Append(items, <<e.node, NoneNode>>)])),
      LAMBDA eerr : Ok(fork, [rule |-> "Delimited", items |-> items]))


\* the `loop` of Delimited::parse: `p` is the caller's buffer, `fork` the fork
RECURSIVE Delimited_loop(_, _, _, _, _, _)
Delimited_loop(E, D, ts, p, fork, items) ==
    Match(Parse_parse(E, ts, fork),
      LAMBDA e :
        Match(Parse_parse(D, ts, e.pos),
          LAMBDA d : Delimited_loop(E, D, ts, p, d.pos,
                                    Append(items, <<e.node, d.node>>)),
          LAMBDA derr : Ok(e.pos, [rule |-> "Delimited",
                                   items |-> Append(items, <<e.node, NoneNode>>)])),
      LAMBDA eerr : Err(p, WhileParsing(Delimited_parse_label(E, D), eerr.err)))

\* variant of Delimited::parse: the delimiter after the first item is parsed
\* but not kept
Delimited_parse_DelimiterNotKept(E, D, ts, p) ==
    Match(Parse_parse(E, ts, p),
      LAMBDA e :
        Match(Parse_parse(D, ts, e.pos),
          LAMBDA d : Delimited_loop(E, D, ts, p, d.pos, << <<e.node, NoneNode>> >>),
          LAMBDA derr : Ok(e.pos, [rule |-> "Delimited",
                                   items |-> << <<e.node, NoneNode>> >>])),
      LAMBDA eerr : Ok(p, [rule |-> "Delimited", items |-> <<>>]))


\* variant of Delimited::parse: a list whose first item fails is an error
Delimited_parse_EmptyIsError(E, D, ts, p) ==
    Match(Parse_parse(E, ts, p),
      LAMBDA e :
        Match(Parse_parse(D, ts, e.pos),
          LAMBDA d : Delimited_loop(E, D, ts, p, d.pos, << <<e.node, d.node>> >>),
          LAMBDA derr : Ok(e.pos, [rule |-> "Delimited",
                                   items |-> << <<e.node, NoneNode>> >>])),
      LAMBDA eerr : Err(p, WhileParsing(Delimited_parse_label(E, D), eerr.err)))


Delimited_parse(E, D, ts, p) ==
    Match(Parse_parse(E, ts, p),
      LAMBDA e :
        Match(Parse_parse(D, ts, e.pos),
          LAMBDA d : Delimited_loop(E, D, ts, p, d.pos, << <<e.node, d.node>> >>),
          LAMBDA derr : Ok(e.pos, [rule |-> "Delimited",
                                   items |-> << <<e.node, NoneNode>> >>])),
      LAMBDA eerr : Ok(p, [rule |-> "Delimited", items |-> <<>>]))

\* the `loop` of Delimited::lexeme_signature: `k` is the item iter.next() yields
RECURSIVE Delimited_signature_loop(_, _, _)
Delimited_signature_loop(items, k, sigg) ==
    IF k > Len(items) THEN Panic
    ELSE LET e == items[k][1]
             maybe_d == items[k][2]
             sigg1 == sigg \o ParseDisplay_lexeme_signature(e)
         IN  IF maybe_d # NoneNode
             THEN IF k + 1 > Len(items) THEN Panic
                  ELSE Delimited_signature_loop(items, k + 1,
                           sigg1 \o ParseDisplay_lexeme_signature(maybe_d) \o SP)
             ELSE IF k + 1 <= Len(items) THEN Panic
                  ELSE sigg1

Delimited_lexeme_signature(node) ==
    IF Len(node.items) = 0 THEN <<>>
    ELSE Delimited_signature_loop(node.items, 1, <<>>)

Terminated_parse_label(E, D) ==
    <<"Terminated Sequence of", Parse_parse_label(E), "by", Parse_parse_label(D)>>
\* variant of the `loop` of Terminated::parse: an item whose delimiter is
\* missing ends the list with the items before it
RECURSIVE Terminated_loop_EndsAtItem(_, _, _, _, _, _)
Terminated_loop_EndsAtItem(E, D, ts, p, fork, items) ==
    Match(Parse_parse(E, ts, fork),
      LAMBDA e :
        Match(Parse_parse(D, ts, e.pos),
          LAMBDA d : Terminated_loop_EndsAtItem(E, D, ts, p, d.pos,
                                     Append(items, <<e.node, d.node>>)),
          LAMBDA derr : Ok(fork, [rule |-> "Terminated", items |-> items])),
      LAMBDA eerr : Ok(fork, [rule |-> "Terminated", items |-> items]))

\* variant of the `loop` of Terminated::parse: the fork is not committed when
\* the list ends
RECURSIVE Terminated_loop_NotCommitted(_, _, _, _, _, _)
Terminated_loop_NotCommitted(E, D, ts, p, fork, items) ==
    Match(Parse_parse(E, ts, fork),
      LAMBDA e :
        Match(Parse_parse(D, ts, e.pos),
          LAMBDA d : Terminated_loop_NotCommitted(E, D, ts, p, d.pos,
                                     Append(items, <<e.node, d.node>>)),
          LAMBDA derr : Err(p, WhileParsing(Terminated_parse_label(E, D), derr.err))),
      LAMBDA eerr : Ok(p, [rule |-> "Terminated", items |-> items]))


\* the `loop` of Terminated::parse
RECURSIVE Terminated_loop(_, _, _, _, _, _)
Terminated_loop(E, D, ts, p, fork, items) ==
    Match(Parse_parse(E, ts, fork),
      LAMBDA e :
        Match(Parse_parse(D, ts, e.pos),
          LAMBDA d : Terminated_loop(E, D, ts, p, d.pos,
                                     Append(items, <<e.node, d.node>>)),
          LAMBDA derr : Err(p, WhileParsing(Terminated_parse_label(E, D), derr.err))),
      LAMBDA eerr : Ok(fork, [rule |-> "Terminated", items |-> items]))

\* variant of Terminated::parse: the first item is committed before the error
\* of its missing delimiter is returned
Terminated_parse_CommitsBeforeError(E, D, ts, p) ==
    Match(Parse_parse(E, ts, p),
      LAMBDA e :
        Match(Parse_parse(D, ts, e.pos),
          LAMBDA d : Terminated_loop(E, D, ts, p, d.pos, << <<e.node, d.node>> >>),
          LAMBDA derr : Err(e.pos, WhileParsing(Terminated_parse_label(E, D), derr.err))),
      LAMBDA eerr : Ok(p, [rule |-> "Terminated", items |-> <<>>]))
\* variant of Terminated::parse: the first item is parsed but not pushed
Terminated_parse_FirstItemDropped(E, D, ts, p) ==
    Match(Parse_parse(E, ts, p),
      LAMBDA e :
        Match(Parse_parse(D, ts, e.pos),
          LAMBDA d : Terminated_loop(E, D, ts, p, d.pos, <<>>),
          LAMBDA derr : Err(p, WhileParsing(Terminated_parse_label(E, D), derr.err))),
      LAMBDA eerr : Ok(p, [rule |-> "Terminated", items |-> <<>>]))


Terminated_parse(E, D, ts, p) ==
    Match(Parse_parse(E, ts, p),
      LAMBDA e :
        Match(Parse_parse(D, ts, e.pos),
          LAMBDA d : Terminated_loop(E, D, ts, p, d.pos, << <<e.node, d.node>> >>),
          LAMBDA derr : Err(p, WhileParsing(Terminated_parse_label(E, D), derr.err))),
      LAMBDA eerr : Ok(p, [rule |-> "Terminated", items |-> <<>>]))

\* the `while let` of Terminated::lexeme_signature
RECURSIVE Terminated_signature_loop(_, _, _)
Terminated_signature_loop(items, k, sigg) ==
    IF k > Len(items) THEN sigg
    ELSE Terminated_signature_loop(items, k + 1,
             sigg \o ParseDisplay_lexeme_signature(items[k][1])
                  \o ParseDisplay_lexeme_signature(items[k][2])
                  \o (IF k + 1 <= Len(items) THEN SP ELSE <<>>))

Terminated_lexeme_signature(node) == Terminated_signature_loop(node.items, 1, <<>>)

(***************************************************************************)
(* non_terminals.rs: FunctionDefinition, the root rule                     *)
(***************************************************************************)
\* FunctionParameters = Delimited<FunctionParameter, Comma>
FunctionParameters_parse(ts, p) == Delimited_parse("FunctionParameter", "Comma", ts, p)

\* CompoundStatements = Terminated<Statement, Semicolon>
CompoundStatements_parse(ts, p) == Terminated_parse("Statement", "Semicolon", ts, p)

FunctionDefinition_parse(ts, p) ==
    IF peek_is_none(ts, p) THEN Err(p, ExpectedFoundNothing("Function Definition"))
    ELSE Try(Type_parse(ts, p), p, LAMBDA r1 :
         Try(Identifier_parse(ts, r1.pos), p, LAMBDA r2 :
         Try(LeftParen_parse(ts, r2.pos), p, LAMBDA r3 :
         Try(FunctionParameters_parse(ts, r3.pos), p, LAMBDA r4 :
         Try(RightParen_parse(ts, r4.pos), p, LAMBDA r5 :
         Try(LeftCurly_parse(ts, r5.pos), p, LAMBDA r6 :
         Try(CompoundStatements_parse(ts, r6.pos), p, LAMBDA r7 :
         Try(RightCurly_parse(ts, r7.pos), p, LAMBDA r8 :
         Ok(r8.pos, [rule |-> "FunctionDefinition", type_ |-> r1.node,
                     function_name |-> r2.node, left_paren |-> r3.node,
                     parameters |-> r4.node, right_paren |-> r5.node,
                     left_curly |-> r6.node, compound_statements |-> r7.node,
                     right_curly |-> r8.node])))))))))

FunctionDefinition_lexeme_signature(node) ==
    terminal_lexeme_signature(node.type_) \o SP \o
    terminal_lexeme_signature(node.function_name) \o SP \o
    terminal_lexeme_signature(node.left_paren) \o
    Delimited_lexeme_signature(node.parameters) \o
    terminal_lexeme_signature(node.right_paren) \o SP \o
    terminal_lexeme_signature(node.left_curly) \o
    B(<<".", ".", ".", ".">>) \o
    terminal_lexeme_signature(node.right_curly)

(***************************************************************************)
(* The source files the model reads.                                       *)
(*                                                                         *)
(* Sources: a word of Words followed by every byte string over Alphabet of *)
(* at most MaxTail bytes.  Words holds every prefix of every reserved word *)
(* and the numeric shapes, so that every state of the machine is reached   *)
(* and then left by every class of byte.                                   *)
(***************************************************************************)
MaxTail == 2

Alphabet ==
    {Ord["i"], Ord["n"], Ord["t"], Ord["x"], Ord["1"], Ord["_"], Ord["."],
     Ord["("], Ord[";"], Ord["SP"], Ord["LF"], Ord["@"], Ord["DEL"]}

Words ==
    { B(<<>>),
      B(<<"i">>), B(<<"i", "n">>), B(<<"i", "n", "t">>),
      B(<<"f">>), B(<<"f", "l">>), B(<<"f", "l", "o">>),
      B(<<"f", "l", "o", "a">>), B(<<"f", "l", "o", "a", "t">>),
      B(<<"r">>), B(<<"r", "e">>), B(<<"r", "e", "t">>),
      B(<<"r", "e", "t", "u">>), B(<<"r", "e", "t", "u", "r">>),
      B(<<"r", "e", "t", "u", "r", "n">>),
      B(<<"x">>), B(<<"_">>),
      B(<<"1">>), B(<<"1", "2">>), B(<<"1", ".">>), B(<<"1", "2", ".">>),
      B(<<"1", ".", "2">>), B(<<"1", "2", ".", "3", "4">>) }

Tails == UNION {[1..n -> Alphabet] : n \in 0..MaxTail}

Sources == {w \o t : w \in Words, t \in Tails}

(***************************************************************************)
(* Programs: the texts of the valid programs with at most MaxParams        *)
(* parameters and MaxStmts statements, the gaps between the tokens filled   *)
(* with nothing or one space (a space is required between two words).      *)
(***************************************************************************)
MaxParams == 2
MaxStmts == 1

TypeWords == {B(<<"i", "n", "t">>), B(<<"f", "l", "o", "a", "t">>)}

\* `type identifier` parameters, comma-delimited
RECURSIVE ParamWords(_)
ParamWords(n) ==
    IF n = 0 THEN {<<>>}
    ELSE IF n = 1 THEN {<<B(<<"i", "n", "t">>), B(<<"x">>)>>}
    ELSE {ps \o <<B(<<",">>), B(<<"i", "n", "t">>), B(<<"y">>)>> : ps \in ParamWords(n - 1)}

StatementWords ==
    { <<B(<<"x">>), B(<<"=">>), B(<<"1">>), B(<<"/">>), B(<<"y">>), B(<<"-">>), B(<<"2">>)>>,
      <<B(<<"x">>), B(<<"=">>), B(<<"(">>), B(<<"i", "n", "t">>), B(<<")">>), B(<<"y">>)>>,
      <<B(<<"r", "e", "t", "u", "r", "n">>), B(<<"x">>), B(<<"*">>), B(<<"2">>), B(<<"+">>), B(<<"1">>)>> }

\* semicolon-terminated statements
RECURSIVE BodyWords(_)
BodyWords(n) ==
    IF n = 0 THEN {<<>>}
    ELSE {b \o st \o <<B(<<";">>)>> : b \in BodyWords(n - 1), st \in StatementWords}

ProgramWords ==
    { <<ty, B(<<"x">>), B(<<"(">>)>> \o ps \o <<B(<<")">>), B(<<"{">>)>> \o b
        \o <<B(<<"}">>)>> :
        ty \in TypeWords,
        ps \in UNION {ParamWords(n) : n \in 0..MaxParams},
        b \in UNION {BodyWords(n) : n \in 0..MaxStmts} }

IsWordByte(c) ==
    CharClass_parse(c) \in {Letter, Digit, Symbol("Underscore"), Symbol("Period")}

\* two adjacent tokens that would read as one without whitespace between them
NeedsSpace(a, b) == IsWordByte(a[Len(a)]) /\ IsWordByte(b[1])

\* the fillings of the gaps: the tightest one (a space only where required),
\* the loosest one (a space everywhere), and each of these with one gap changed
Gaps(ws) ==
    LET n == Len(ws) - 1
        tight == [k \in 1..n |-> IF NeedsSpace(ws[k], ws[k + 1]) THEN SP ELSE <<>>]
        loose == [k \in 1..n |-> SP]
    IN  {tight, loose}
            \cup {[loose EXCEPT ![k] = tight[k]] : k \in 1..n}
            \cup {[tight EXCEPT ![k] = SP] : k \in 1..n}

RECURSIVE Render(_, _, _)
Render(ws, g, k) ==
    IF k > Len(ws) THEN <<>>
    ELSE ws[k] \o (IF k < Len(ws) THEN g[k] ELSE <<>>) \o Render(ws, g, k + 1)

Programs == UNION { {Render(ws, g, 1) : g \in Gaps(ws)} : ws \in ProgramWords }

\* The text with whitespace normalized to single spaces between tokens: the
\* maximal runs of word bytes and the single punctuation bytes, in order,
\* joined by one space.
RECURSIVE NormalizeFrom(_, _, _, _)
NormalizeFrom(bytes, k, acc, inWord) ==
    IF k > Len(bytes) THEN acc
    ELSE LET c == bytes[k]
             sep == IF acc = <<>> THEN <<>> ELSE SP
         IN  IF is_whitespace(c) THEN NormalizeFrom(bytes, k + 1, acc, FALSE)
             ELSE IF IsWordByte(c)
             THEN NormalizeFrom(bytes, k + 1,
                      IF inWord THEN Append(acc, c) ELSE acc \o sep \o <<c>>, TRUE)
             ELSE NormalizeFrom(bytes, k + 1, acc \o sep \o <<c>>, FALSE)

NormalizeWhitespace(bytes) == NormalizeFrom(bytes, 1, <<>>, FALSE)

(***************************************************************************)
(* lib.rs: get_lexemes, and main.rs: main                                  *)
(***************************************************************************)
NoCall == [state |-> "none", lexeme |-> <<>>, c |-> -1]

NoRoot == [ok |-> FALSE, pos |-> 0, node |-> <<>>, err |-> <<>>]

InitOn(files) ==
    /\ input \in files
    /\ pos = 0
    /\ state = "ScrollToNext"
    /\ lexeme = <<>>
    /\ call = NoCall
    /\ out = <<>>
    /\ lexemes = <<>>
    /\ pc = "lexing"
    /\ root = NoRoot
    /\ buffer = NoBuffer
    /\ forked = NoBuffer
    /\ item = <<>>

Init == InitOn(Sources)

InitProgram == InitOn(Programs)

\* variant of Tick: the bytes after a fatal one are ticked too
Tick_AfterFatal ==
    /\ pc \in {"lexing", "exit"}
    /\ pos < Len(input)
    /\ LET c == input[pos + 1]
           r == tick(state, lexeme, c)
       IN  /\ call' = [state |-> state, lexeme |-> lexeme, c |-> c]
           /\ pos' = pos + 1
           /\ state' = r.state
           /\ lexeme' = r.lexeme
           /\ out' = r.out
           /\ lexemes' = lexemes \o r.out
           /\ pc' = IF r.fatal THEN "exit" ELSE "lexing"
    /\ UNCHANGED <<input, root, buffer, forked, item>>

\* one step of the filter_map over the bytes of the file
Tick ==
    /\ pc = "lexing"
    /\ pos < Len(input)
    /\ LET c == input[pos + 1]
           r == tick(state, lexeme, c)
       IN  /\ call' = [state |-> state, lexeme |-> lexeme, c |-> c]
           /\ pos' = pos + 1
           /\ state' = r.state
           /\ lexeme' = r.lexeme
           /\ out' = r.out
           /\ lexemes' = lexemes \o r.out
           /\ pc' = IF r.fatal THEN "exit" ELSE "lexing"
    /\ UNCHANGED <<input, root, buffer, forked, item>>

\* EOF has been reached: finalize the state machine
Finalize ==
    /\ pc = "lexing"
    /\ pos = Len(input)
    /\ LET r == finalize(state, lexeme)
       IN  /\ call' = [state |-> state, lexeme |-> lexeme, c |-> 10]
           /\ state' = r.state
           /\ lexeme' = r.lexeme
           /\ out' = r.out
           /\ lexemes' = lexemes \o r.out
           /\ pc' = IF r.fatal THEN "exit" ELSE "lexed"
    /\ UNCHANGED <<input, pos, root, buffer, forked, item>>
\* variant of ParseRoot: tokens left after the function are an error
ParseRoot_RequiresEnd ==
    /\ pc = "lexed"
    /\ LET r == FunctionDefinition_parse(lexemes, 0)
       IN  root' = IF r.ok /\ r.pos < Len(lexemes)
                   THEN Err(0, ExpectedFound("end of input", lexemes[r.pos + 1][2]))
                   ELSE r
    /\ pc' = "parsed"
    /\ UNCHANGED <<input, pos, state, lexeme, call, out, lexemes, buffer, forked, item>>


\* main: FunctionDefinition::parse on a new ParseBuffer over TOKEN_STREAM
ParseRoot ==
    /\ pc = "lexed"
    /\ root' = FunctionDefinition_parse(lexemes, 0)
    /\ pc' = "parsed"
    /\ UNCHANGED <<input, pos, state, lexeme, call, out, lexemes, buffer, forked, item>>

Next == Tick \/ Finalize \/ ParseRoot

Spec == Init /\ [][Next]_vars

SpecProgram == InitProgram /\ [][Next]_vars

(***************************************************************************)
(* The ParseBuffer operations one at a time (lib.rs of the syntactical     *)
(* analyzer).  TOKEN_STREAM is a LazyLock: its first use, inside the first *)
(* ParseBuffer::new, runs get_lexemes to the end; every later use finds    *)
(* the vector already built.                                               *)
(***************************************************************************)
BufferSources ==
    { <<>>,
      B(<<"x", "@">>),
      B(<<"i", "n", "t", "SP", "x">>),
      B(<<"x", "SP", "=", "SP", "1", "SP", ";">>) }

InitBuffer ==
    /\ input \in BufferSources
    /\ pos = 0
    /\ state = "ScrollToNext"
    /\ lexeme = <<>>
    /\ call = NoCall
    /\ out = <<>>
    /\ lexemes = <<>>
    /\ pc = "main"
    /\ root = NoRoot
    /\ buffer = NoBuffer
    /\ forked = NoBuffer
    /\ item = <<>>

\* the first ParseBuffer::new reaches TOKEN_STREAM: LazyLock calls get_lexemes
Access ==
    /\ pc = "main"
    /\ pc' = "lexing"
    /\ UNCHANGED <<input, pos, state, lexeme, call, out, lexemes, root, buffer,
                   forked, item>>
\* variant of New: every ParseBuffer::new builds the token stream again
New_Rebuilds ==
    /\ pc \in {"lexed", "parsing"}
    /\ IF pc = "lexed"
       THEN /\ buffer' = ParseBuffer_new(lexemes)
            /\ pc' = "parsing"
            /\ UNCHANGED <<pos, state, lexeme, lexemes>>
       ELSE /\ buffer' = NoBuffer
            /\ pc' = "lexing"
            /\ pos' = 0
            /\ state' = "ScrollToNext"
            /\ lexeme' = <<>>
            /\ lexemes' = <<>>
    /\ UNCHANGED <<input, call, out, root, forked, item>>


\* ParseBuffer::new returns, the first time or any later time
New ==
    /\ pc \in {"lexed", "parsing"}
    /\ buffer' = ParseBuffer_new(lexemes)
    /\ pc' = "parsing"
    /\ UNCHANGED <<input, pos, state, lexeme, call, out, lexemes, root, forked, item>>

\* let mut fork = buffer.fork()
Fork ==
    /\ pc = "parsing"
    /\ forked' = ParseBuffer_fork(buffer)
    /\ UNCHANGED <<input, pos, state, lexeme, call, out, lexemes, pc, root, buffer, item>>

\* buffer.peek()
Buffer_peek ==
    /\ pc = "parsing"
    /\ buffer' = ParseBuffer_peek(lexemes, buffer).buffer
    /\ item' = ParseBuffer_peek(lexemes, buffer).item
    /\ UNCHANGED <<input, pos, state, lexeme, call, out, lexemes, pc, root, forked>>

\* buffer.next()
Buffer_next ==
    /\ pc = "parsing"
    /\ buffer' = ParseBuffer_next(lexemes, buffer).buffer
    /\ item' = ParseBuffer_next(lexemes, buffer).item
    /\ UNCHANGED <<input, pos, state, lexeme, call, out, lexemes, pc, root, forked>>

\* fork.peek()
Fork_peek ==
    /\ pc = "parsing"
    /\ forked # NoBuffer
    /\ forked' = ParseBuffer_peek(lexemes, forked).buffer
    /\ item' = ParseBuffer_peek(lexemes, forked).item
    /\ UNCHANGED <<input, pos, state, lexeme, call, out, lexemes, pc, root, buffer>>

\* fork.next()
Fork_next ==
    /\ pc = "parsing"
    /\ forked # NoBuffer
    /\ forked' = ParseBuffer_next(lexemes, forked).buffer
    /\ item' = ParseBuffer_next(lexemes, forked).item
    /\ UNCHANGED <<input, pos, state, lexeme, call, out, lexemes, pc, root, buffer>>

\* *buffer = fork: the fork is moved into the caller's buffer
Commit ==
    /\ pc = "parsing"
    /\ forked # NoBuffer
    /\ buffer' = forked
    /\ forked' = NoBuffer
    /\ UNCHANGED <<input, pos, state, lexeme, call, out, lexemes, pc, root, item>>

NextBuffer ==
    \/ Access \/ Tick \/ Finalize
    \/ New \/ Fork \/ Buffer_peek \/ Buffer_next \/ Fork_peek \/ Fork_next \/ Commit

SpecBuffer == InitBuffer /\ [][NextBuffer]_vars

(***************************************************************************)
(* Vocabulary of the properties                                            *)
(***************************************************************************)
IntWord == B(<<"i", "n", "t">>)
FloatWord == B(<<"f", "l", "o", "a", "t">>)
ReturnWord == B(<<"r", "e", "t", "u", "r", "n">>)

ReservedWords == {IntWord, FloatWord, ReturnWord}

\* the keyword pair of each Confirm* state
Keyword ==
    [ConfirmTypeInt |-> <<TokType("Int"), IntWord>>,
     ConfirmTypeFloat |-> <<TokType("Float"), FloatWord>>,
     ConfirmKeywordReturn |-> <<TokReturn, ReturnWord>>]

ConfirmStates == DOMAIN Keyword

\* the prefix-tracking states that are not Confirm* states
PrefixStates ==
    {"MaybeTypeInt2", "MaybeTypeInt3",
     "MaybeTypeFloat2", "MaybeTypeFloat3", "MaybeTypeFloat4", "MaybeTypeFloat5",
     "MaybeKeywordReturn2", "MaybeKeywordReturn3", "MaybeKeywordReturn4",
     "MaybeKeywordReturn5", "MaybeKeywordReturn6"}

\* a tick has been made: `call` holds its arguments and `out` what it returned
Ticked == call # NoCall

\* the class of the byte of the most recent tick
CallClass == CharClass_parse(call.c)

\* the byte of the most recent tick is a punctuation symbol other than `sym`
CallIsSymbolOtherThan(sym) == IsSymbol(CallClass) /\ CallClass # Symbol(sym)

\* the symbol pair of the byte of the most recent tick
CallSymbolPair == <<TokSymbol(CallClass[2]), <<call.c>> >>

IsDigits(s) == Len(s) > 0 /\ \A k \in 1..Len(s) : CharClass_parse(s[k]) = Digit

IsContinuationString(s) ==
    Len(s) > 0 /\ \A k \in 1..Len(s) : IsContinuation(CharClass_parse(s[k]))

\* digits `.` digits
IsFloatShape(s) ==
    \E k \in 2..(Len(s) - 1) :
        /\ s[k] = Ord["."]
        /\ IsDigits(SubSeq(s, 1, k - 1))
        /\ IsDigits(SubSeq(s, k + 1, Len(s)))

\* the input is a reserved word followed by a non-empty continuation string
IsKeywordFallbackInput ==
    \E w \in ReservedWords :
        /\ Len(input) > Len(w)
        /\ SubSeq(input, 1, Len(w)) = w
        /\ IsContinuationString(SubSeq(input, Len(w) + 1, Len(input)))

(***************************************************************************)
(* C1: for every valid program, tokenizing and then parsing succeeds and   *)
(* the root node's lexeme_signature equals the input text with whitespace  *)
(* normalized to single spaces between tokens.                             *)
(***************************************************************************)
C1_ValidProgramRoundTrip ==
    pc = "parsed" =>
        /\ root.ok
        /\ FunctionDefinition_lexeme_signature(root.node) = NormalizeWhitespace(input)

(***************************************************************************)
(* C2: keyword fallback.  A reserved word followed by a non-empty string   *)
(* of identifier-continuation bytes and then end-of-input yields exactly   *)
(* one pair (Identifier, whole text); no Type or Return token is emitted.  *)
(***************************************************************************)
C2_KeywordFallback ==
    (IsKeywordFallbackInput /\ pos = Len(input)) =>
        /\ pc # "exit"
        /\ pc = "lexing" => (state = "Identifier" /\ lexeme = input /\ lexemes = <<>>)
        /\ pc \in {"lexed", "parsed"} => lexemes = << <<TokIdentifier, input>> >>

C2_Witness ==
    /\ pc = "lexed"
    /\ IsKeywordFallbackInput
    /\ input = ReturnWord \o B(<<"_", "1">>)
    /\ lexemes = << <<TokIdentifier, input>> >>

(***************************************************************************)
(* C3: from ConfirmTypeInt, ConfirmTypeFloat and ConfirmKeywordReturn a    *)
(* whitespace byte (or end-of-input) flushes exactly one pair:             *)
(* (Type(Int), "int"), (Type(Float), "float"), (Return, "return").         *)
(***************************************************************************)
C3_ConfirmWhitespaceFlushesKeyword ==
    \A st \in ConfirmStates :
        (call.state = st /\ is_whitespace(call.c)) =>
            /\ out = << Keyword[st] >>
            /\ state = "ScrollToNext" /\ lexeme = <<>>

C3_Witness ==
    /\ call.state = "ConfirmKeywordReturn"
    /\ call.c = Ord["SP"]
    /\ pc = "lexing"
    /\ out = << <<TokReturn, ReturnWord>> >>

(***************************************************************************)
(* C4: from every prefix-tracking state that is not a Confirm* state a     *)
(* whitespace byte (or end-of-input) flushes the accumulated lexeme as     *)
(* Identifier.                                                             *)
(***************************************************************************)
C4_PrefixWhitespaceFlushesIdentifier ==
    (call.state \in PrefixStates /\ is_whitespace(call.c)) =>
        out = << <<TokIdentifier, call.lexeme>> >>

(***************************************************************************)
(* C5: from a Confirm* state a punctuation byte other than underscore      *)
(* makes tick return two pairs: (keyword token, keyword text) and then     *)
(* (Symbol, that character).                                               *)
(***************************************************************************)
C5_ConfirmSymbolFlushesKeyword ==
    \A st \in ConfirmStates :
        (call.state = st /\ CallIsSymbolOtherThan("Underscore")) =>
            out = << Keyword[st], CallSymbolPair >>

(***************************************************************************)
(* C6: from the Identifier state or any non-Confirm prefix state a         *)
(* punctuation byte other than underscore makes tick return                *)
(* (Identifier, lexeme) and then (Symbol, that character).                 *)
(***************************************************************************)
C6_IdentifierSymbolFlushesIdentifier ==
    (call.state \in PrefixStates \cup {"Identifier"}
        /\ CallIsSymbolOtherThan("Underscore")) =>
        out = << <<TokIdentifier, call.lexeme>>, CallSymbolPair >>

(***************************************************************************)
(* C7: a lexeme digits `.` digits terminated by whitespace, end-of-input   *)
(* or a punctuation symbol is emitted as exactly one LiteralFloat pair     *)
(* carrying the whole text.                                                *)
(***************************************************************************)
C7_NumericPromotion ==
    (Ticked /\ IsFloatShape(call.lexeme)) =>
        /\ is_whitespace(call.c) => out = << <<TokLiteralFloat, call.lexeme>> >>
        /\ CallIsSymbolOtherThan("Period") =>
               out = << <<TokLiteralFloat, call.lexeme>>, CallSymbolPair >>

(***************************************************************************)
(* C8: a second `.` after digits `.` digits is a fatal lexical error, and  *)
(* no token is emitted for the text.                                       *)
(***************************************************************************)
C8_SecondPeriodIsFatal ==
    (Ticked /\ IsFloatShape(call.lexeme) /\ call.c = Ord["."]) =>
        (pc = "exit" /\ out = <<>>)

(***************************************************************************)
(* C9: a run of digits terminated by whitespace or end-of-input yields     *)
(* exactly one (LiteralInt, digits) pair; terminated by a punctuation      *)
(* symbol other than `.` it yields (LiteralInt, digits) and then           *)
(* (Symbol, that character) in the same tick; a further digit keeps the    *)
(* machine in NumberDigit and emits nothing.                               *)
(***************************************************************************)
C9_DigitRun ==
    (Ticked /\ IsDigits(call.lexeme)) =>
        /\ call.state = "NumberDigit"
        /\ is_whitespace(call.c) => out = << <<TokLiteralInt, call.lexeme>> >>
        /\ CallIsSymbolOtherThan("Period") =>
               out = << <<TokLiteralInt, call.lexeme>>, CallSymbolPair >>
        /\ CallClass = Digit =>
               /\ out = <<>>
               /\ state = "NumberDigit"
               /\ lexeme = Append(call.lexeme, call.c)

C9_Witness ==
    /\ call.state = "NumberDigit"
    /\ call.lexeme = B(<<"1", "2">>)
    /\ call.c = Ord["("]
    /\ out = << <<TokLiteralInt, B(<<"1", "2">>)>>,
                <<TokSymbol("LeftParen"), B(<<"(">>)>> >>

(***************************************************************************)
(* C10: step contract.  A tick that is not a fatal error returns zero, one *)
(* or two pairs and never a partial lexeme: a returned lexeme is the whole *)
(* pending lexeme or the byte of a symbol, and nothing of it stays         *)
(* pending.  Two pairs are returned only when a punctuation symbol         *)
(* terminates a pending lexeme: the pending lexeme's pair first, the       *)
(* symbol's pair second.                                                   *)
(***************************************************************************)
C10_StepContract ==
    (Ticked /\ pc # "exit") =>
        /\ Len(out) \in {0, 1, 2}
        /\ Len(out) = 0 =>
               lexeme = IF is_whitespace(call.c) THEN call.lexeme
                        ELSE Append(call.lexeme, call.c)
        /\ Len(out) > 0 => (lexeme = <<>> /\ state = "ScrollToNext")
        /\ Len(out) = 1 =>
               \/ /\ is_whitespace(call.c)
                  /\ call.lexeme # <<>>
                  /\ out[1][2] = call.lexeme
               \/ /\ IsSymbol(CallClass)
                  /\ call.lexeme = <<>>
                  /\ out[1] = CallSymbolPair
        /\ Len(out) = 2 =>
               /\ IsSymbol(CallClass)
               /\ call.lexeme # <<>>
               /\ out[1][2] = call.lexeme
               /\ out[2] = CallSymbolPair

C10_Witness ==
    /\ pc = "lexing"
    /\ call.state = "MaybeTypeFloat3"
    /\ call.c = Ord[";"]
    /\ Len(out) = 2
    /\ out[1][2] = B(<<"f", "l">>)
    /\ out[2] = <<TokSymbol("Semicolon"), B(<<";">>)>>

\* the whitespace bytes: tab, LF, VT, FF, CR, space
Whitespace == {9, 10, 11, 12, 13, 32}

(***************************************************************************)
(* C11: finalize() behaves as tick(whitespace).  In every reachable state  *)
(* it returns what tick of any whitespace byte returns; at end-of-input a  *)
(* pending lexeme is flushed exactly once, and an idle machine             *)
(* (ScrollToNext, empty buffer) emits nothing.                             *)
(***************************************************************************)
C11_FinalizeIsTickWhitespace ==
    /\ pc = "lexing" =>
           \A w \in Whitespace : finalize(state, lexeme) = tick(state, lexeme, w)
    /\ pc \in {"lexed", "parsed"} =>
           /\ state = "ScrollToNext" /\ lexeme = <<>>
           /\ call.state = "ScrollToNext" => (call.lexeme = <<>> /\ out = <<>>)
           /\ call.state # "ScrollToNext" =>
                  /\ call.lexeme # <<>>
                  /\ Len(out) = 1
                  /\ out[1][2] = call.lexeme

C11_Witness ==
    /\ pc = "lexed"
    /\ call.state = "NumberFloat"
    /\ call.lexeme = B(<<"1", ".">>)
    /\ out = << <<TokLiteralFloat, B(<<"1", ".">>)>> >>

\* a word of Words followed by at most MaxShortTail bytes of Alphabet
MaxShortTail == 1

ShortSources ==
    {w \o t : w \in Words, t \in UNION {[1..n -> Alphabet] : n \in 0..MaxShortTail}}

InitTrailing == InitOn(ShortSources)

SpecTrailing == InitTrailing /\ [][Next]_vars

\* the runs of at most MaxTrailing whitespace bytes
MaxTrailing == 2

TrailingRuns == UNION {[1..n -> Whitespace] : n \in 0..MaxTrailing}

(***************************************************************************)
(* C12: trailing-whitespace idempotence.  For every input that tokenizes   *)
(* without error, the input followed by any run of whitespace bytes        *)
(* tokenizes to exactly the same token stream.                             *)
(***************************************************************************)
C12_TrailingWhitespaceIdempotence ==
    pc = "lexed" =>
        \A w \in TrailingRuns :
            get_lexemes(input \o w) = [fatal |-> FALSE, lexemes |-> lexemes]

C12_Witness ==
    /\ pc = "lexed"
    /\ input = B(<<"1", "2", ".", "3", "4", ";">>)
    /\ Len(lexemes) = 2
    /\ get_lexemes(input \o B(<<"TAB", "SP">>)).lexemes = lexemes

(***************************************************************************)
(* Files of one byte, for the properties of the classification of a byte.  *)
(***************************************************************************)
Bytes == 0..255

InitByte == InitOn({<<c>> : c \in Bytes})

SpecByte == InitByte /\ [][Next]_vars

\* the 13 punctuation bytes `+ - * / = ; ( ) { } _ , .` and their kinds
SymbolKind ==
    43 :> "Plus" @@ 45 :> "Minus" @@ 42 :> "Multiply" @@ 47 :> "Divide" @@
    61 :> "Equal" @@ 59 :> "Semicolon" @@ 40 :> "LeftParen" @@
    41 :> "RightParen" @@ 123 :> "LeftCurly" @@ 125 :> "RightCurly" @@
    95 :> "Underscore" @@ 44 :> "Comma" @@ 46 :> "Period"

\* the class of a byte as a table of ranges
ClassOfByte(c) ==
    IF c < 33 \/ c > 126 THEN Unknown
    ELSE IF c \in (65..90) \cup (97..122) THEN Letter
    ELSE IF c \in 48..57 THEN Digit
    ELSE IF c \in DOMAIN SymbolKind THEN Symbol(SymbolKind[c])
    ELSE Unknown

(***************************************************************************)
(* C13: CharClass::parse is total on the 256 byte values: bytes below 0x21 *)
(* or above 0x7E are Unknown, A-Z and a-z are Letter, 0-9 are Digit, the   *)
(* 13 punctuation bytes map to 13 distinct Symbol kinds, every other       *)
(* printable byte is Unknown; and the first tick of the machine treats the *)
(* byte by that class.                                                     *)
(***************************************************************************)
C13_CharClassTable ==
    /\ \A c \in Bytes : CharClass_parse(c) = ClassOfByte(c)
    /\ Cardinality({CharClass_parse(c) : c \in DOMAIN SymbolKind}) = 13
    /\ (Ticked /\ call.state = "ScrollToNext" /\ ~is_whitespace(call.c)) =>
           LET cls == ClassOfByte(call.c)
           IN  /\ cls = Unknown => pc = "exit"
               /\ cls = Letter =>
                      (lexeme = <<call.c>>
                          /\ state \in {"Identifier", "MaybeTypeInt2",
                                        "MaybeTypeFloat2", "MaybeKeywordReturn2"})
               /\ cls = Digit => (lexeme = <<call.c>> /\ state = "NumberDigit")
               /\ cls = Symbol("Underscore") =>
                      (lexeme = <<call.c>> /\ state = "Identifier")
               /\ (IsSymbol(cls) /\ cls # Symbol("Underscore")) =>
                      out = << <<TokSymbol(cls[2]), <<call.c>> >> >>

C13_Witness ==
    /\ input = <<123>>
    /\ pos = 1
    /\ pc = "lexing"
    /\ CallClass = Symbol("LeftCurly")
    /\ out = << <<TokSymbol("LeftCurly"), <<123>> >> >>

(***************************************************************************)
(* C14: whitespace is recognised before classification in every state:     *)
(* each of the six whitespace bytes is accepted in every reachable state,  *)
(* never causes a fatal error and leaves the machine in ScrollToNext with  *)
(* an empty buffer, although CharClass::parse alone calls each of them     *)
(* Unknown.                                                                *)
(***************************************************************************)
C14_WhitespaceFirst ==
    /\ pc = "lexing" =>
           \A w \in Whitespace :
               LET r == tick(state, lexeme, w)
               IN  /\ is_whitespace(w)
                   /\ CharClass_parse(w) = Unknown
                   /\ ~r.fatal
                   /\ r.state = "ScrollToNext"
                   /\ r.lexeme = <<>>
    /\ (Ticked /\ call.c \in Whitespace) =>
           (pc # "exit" /\ state = "ScrollToNext" /\ lexeme = <<>>)

C14_Witness ==
    /\ call.state = "MaybeTypeFloat4"
    /\ call.c = Ord["SP"]
    /\ pc = "lexing"
    /\ state = "ScrollToNext"
    /\ lexeme = <<>>

\* the byte of the most recent tick is one the claim calls fatal in the state
\* the tick was made in
CallIsFatalByte ==
    /\ call.c \notin Whitespace
    /\ \/ ClassOfByte(call.c) = Unknown
       \/ /\ call.state \in {"NumberDigit", "NumberFloat"}
          /\ ClassOfByte(call.c) = Letter

(***************************************************************************)
(* C15: in every state a non-whitespace byte of class Unknown is a fatal   *)
(* lexical error; in NumberDigit and NumberFloat a Letter is fatal too; no *)
(* other byte is fatal in any state.  A fatal tick returns nothing.        *)
(***************************************************************************)
C15_FatalBytes ==
    Ticked =>
        /\ pc = "exit" <=> CallIsFatalByte
        /\ pc = "exit" => out = <<>>

C15_Witness ==
    /\ call.state = "NumberFloat"
    /\ call.lexeme = B(<<"1", "2", ".">>)
    /\ call.c = Ord["x"]
    /\ pc = "exit"

(***************************************************************************)
(* C16: a lexical error is fatal to the whole pass.  The fatal tick emits  *)
(* no token; after it no byte is processed, no token is emitted and the    *)
(* parser is never given a token stream: the error state is absorbing.     *)
(***************************************************************************)
C16_FatalIsAbsorbing ==
    /\ [](pc = "exit" => (out = <<>> /\ root = NoRoot))
    /\ [][pc' = "exit" => lexemes' = lexemes]_vars
    /\ [][pc # "exit"]_vars

C16_Witness ==
    /\ pc = "exit"
    /\ input = B(<<"x", "@", ";">>)
    /\ pos = 2
    /\ lexemes = <<>>
    /\ root = NoRoot

\* the lexemes of a sequence of pairs, concatenated in order
RECURSIVE ConcatLexemes(_)
ConcatLexemes(pairs) ==
    IF pairs = <<>> THEN <<>> ELSE pairs[1][2] \o ConcatLexemes(Tail(pairs))

IsNotWhitespace(c) == c \notin Whitespace

StripWhitespace(bytes) == SelectSeq(bytes, IsNotWhitespace)

(***************************************************************************)
(* C17: the token stream preserves the source in order.  While no error    *)
(* has been hit, the emitted lexemes followed by the pending lexeme are    *)
(* the consumed bytes with the whitespace removed, and at end-of-input the *)
(* emitted lexemes are the whole input with the whitespace removed; every  *)
(* lexeme is paired with one token and is a contiguous piece of the source *)
(* (the pending lexeme is the bytes just before the cursor, and a returned *)
(* lexeme is the whole pending lexeme or the byte of the tick); the bytes  *)
(* are ticked left to right, each once.                                    *)
(***************************************************************************)
C17_SourcePreserved ==
    /\ [](pc # "exit" =>
            /\ ConcatLexemes(lexemes) \o lexeme = StripWhitespace(SubSeq(input, 1, pos))
            /\ lexeme = SubSeq(input, pos - Len(lexeme) + 1, pos)
            /\ \A k \in 1..Len(lexemes) :
                   Len(lexemes[k]) = 2 /\ lexemes[k][2] # <<>>
            /\ \A k \in 1..Len(out) : out[k][2] \in {call.lexeme, <<call.c>>})
    /\ [](pc \in {"lexed", "parsed"} =>
            /\ pos = Len(input)
            /\ ConcatLexemes(lexemes) = StripWhitespace(input))
    /\ [][pos' = pos \/ (pos' = pos + 1 /\ call'.c = input[pos'])]_vars

C17_Witness ==
    /\ pc = "lexed"
    /\ input = B(<<"i", "n", "SP", ";">>)
    /\ lexemes = << <<TokIdentifier, B(<<"i", "n">>)>>,
                    <<TokSymbol("Semicolon"), B(<<";">>)>> >>

(***************************************************************************)
(* Files for the properties of the parser: the valid programs with one     *)
(* space in every gap, and each of them with one word or two adjacent      *)
(* words left out; likewise a few further files, each written out below.   *)
(***************************************************************************)
Without(ws, k) == SubSeq(ws, 1, k - 1) \o SubSeq(ws, k + 1, Len(ws))

Spaced(ws) == Render(ws, [k \in 1..(Len(ws) - 1) |-> SP], 1)
\* a function of two short statements, `x = 1 ; y = 2 ;`
TwoStatementWords ==
    { <<B(<<"i", "n", "t">>), B(<<"f">>), B(<<"(">>), B(<<")">>), B(<<"{">>),
        B(<<"x">>), B(<<"=">>), B(<<"1">>), B(<<";">>),
        B(<<"y">>), B(<<"=">>), B(<<"2">>), B(<<";">>), B(<<"}">>)>> }

\* a function whose statement is a chain of subtractions, `x = a - b - c ;`
ChainWords ==
    { <<B(<<"i", "n", "t">>), B(<<"f">>), B(<<"(">>), B(<<")">>), B(<<"{">>),
        B(<<"x">>), B(<<"=">>), B(<<"a">>), B(<<"-">>), B(<<"b">>), B(<<"-">>),
        B(<<"c">>), B(<<";">>), B(<<"}">>)>> }

\* functions whose statement has more operators than one expression takes:
\* `x = a * b - c / 2 / 1 ;` and `x = a * b * c ;`
LongExpressionWords ==
    { <<B(<<"i", "n", "t">>), B(<<"f">>), B(<<"(">>), B(<<")">>), B(<<"{">>),
        B(<<"x">>), B(<<"=">>), B(<<"a">>), B(<<"*">>), B(<<"b">>), B(<<"-">>),
        B(<<"c">>), B(<<"/">>), B(<<"2">>), B(<<"/">>), B(<<"1">>),
        B(<<";">>), B(<<"}">>)>>,
      <<B(<<"i", "n", "t">>), B(<<"f">>), B(<<"(">>), B(<<")">>), B(<<"{">>),
        B(<<"x">>), B(<<"=">>), B(<<"a">>), B(<<"*">>), B(<<"b">>), B(<<"*">>),
        B(<<"c">>), B(<<";">>), B(<<"}">>)>> }

\* functions followed by more tokens: `int f ( ) { } int` and
\* `int f ( ) { return x ; } x = 1`
FollowedWords ==
    { <<B(<<"i", "n", "t">>), B(<<"f">>), B(<<"(">>), B(<<")">>), B(<<"{">>),
        B(<<"}">>), B(<<"i", "n", "t">>)>>,
      <<B(<<"i", "n", "t">>), B(<<"f">>), B(<<"(">>), B(<<")">>), B(<<"{">>),
        B(<<"r", "e", "t", "u", "r", "n">>), B(<<"x">>), B(<<";">>), B(<<"}">>),
        B(<<"x">>), B(<<"=">>), B(<<"1">>)>> }

\* a function whose statement adds a float literal and an integer literal,
\* `x = 1. + 3 ;` (the tokenizer tags `1.` LiteralFloat, `1.2` LiteralInt)
FloatWords ==
    { <<B(<<"i", "n", "t">>), B(<<"f">>), B(<<"(">>), B(<<")">>), B(<<"{">>),
        B(<<"x">>), B(<<"=">>), B(<<"1", ".">>), B(<<"+">>), B(<<"3">>),
        B(<<";">>), B(<<"}">>)>> }

BrokenPrograms ==
    UNION { {Spaced(ws)}
            \cup {Spaced(Without(ws, k)) : k \in 1..Len(ws)}
            \cup {Spaced(Without(Without(ws, k), k)) : k \in 1..(Len(ws) - 1)} :
            ws \in ProgramWords \cup TwoStatementWords \cup ChainWords
                      \cup LongExpressionWords \cup FollowedWords
                      \cup FloatWords }

InitBroken == InitOn(BrokenPrograms)

SpecBroken == InitBroken /\ [][Next]_vars

\* the step of main in which FunctionDefinition::parse returns, seen on pc
Returns == pc = "lexed" /\ pc' = "parsed"

\* main is one sequential program: each of its steps is taken once it can be
SpecBrokenFair ==
    SpecBroken /\ WF_vars(Tick) /\ WF_vars(Finalize) /\ WF_pc(Returns)

\* every rule of the grammar, and its parse
Terminals ==
    {"Identifier", "Type", "Equals", "Semicolon", "Return", "Literal",
     "LeftParen", "RightParen", "Plus", "Minus", "Multiply", "Divide",
     "Comma", "LeftCurly", "RightCurly"}

Products ==
    {"FunctionDefinition", "FunctionParameter", "AssignmentStatement",
     "ReturnStatement", "TypecastExpression", "ArithmeticExpression", "Term"}

Rules ==
    Terminals \cup Products \cup
    {"Statement", "Expression", "Factor", "TermExtend", "FactorExtend",
     "FunctionParameters", "CompoundStatements"}

ParseRule(E, ts, p) ==
    CASE E = "Identifier" -> Identifier_parse(ts, p)
      [] E = "Type" -> Type_parse(ts, p)
      [] E = "Equals" -> Equals_parse(ts, p)
      [] E = "Semicolon" -> Semicolon_parse(ts, p)
      [] E = "Return" -> Return_parse(ts, p)
      [] E = "Literal" -> Literal_parse(ts, p)
      [] E = "LeftParen" -> LeftParen_parse(ts, p)
      [] E = "RightParen" -> RightParen_parse(ts, p)
      [] E = "Plus" -> Plus_parse(ts, p)
      [] E = "Minus" -> Minus_parse(ts, p)
      [] E = "Multiply" -> Multiply_parse(ts, p)
      [] E = "Divide" -> Divide_parse(ts, p)
      [] E = "Comma" -> Comma_parse(ts, p)
      [] E = "LeftCurly" -> LeftCurly_parse(ts, p)
      [] E = "RightCurly" -> RightCurly_parse(ts, p)
      [] E = "FunctionDefinition" -> FunctionDefinition_parse(ts, p)
      [] E = "FunctionParameter" -> FunctionParameter_parse(ts, p)
      [] E = "AssignmentStatement" -> AssignmentStatement_parse(ts, p)
      [] E = "ReturnStatement" -> ReturnStatement_parse(ts, p)
      [] E = "TypecastExpression" -> TypecastExpression_parse(ts, p)
      [] E = "ArithmeticExpression" -> ArithmeticExpression_parse(ts, p)
      [] E = "Term" -> Term_parse(ts, p)
      [] E = "Statement" -> Statement_parse(ts, p)
      [] E = "Expression" -> Expression_parse(ts, p)
      [] E = "Factor" -> Factor_parse(ts, p)
      [] E = "TermExtend" -> TermExtend_parse(ts, p)
      [] E = "FactorExtend" -> FactorExtend_parse(ts, p)
      [] E = "FunctionParameters" -> FunctionParameters_parse(ts, p)
      [] E = "CompoundStatements" -> CompoundStatements_parse(ts, p)

\* the token stream has been handed to the parser
Lexed == pc \in {"lexed", "parsed"}

(***************************************************************************)
(* C18: a parse failure never moves the caller's cursor.  For every rule   *)
(* of the grammar and every start position in the token stream, if parse   *)
(* returns Err the caller's cursor is where it was before the call.        *)
(***************************************************************************)
C18_FailureKeepsCursor ==
    Lexed =>
        \A E \in Rules, p \in 0..Len(lexemes) :
            LET r == ParseRule(E, lexemes, p) IN ~r.ok => r.pos = p

\* a statement without its semicolon: Terminated fails after a whole statement
\* was parsed on its fork, and the cursor is still before the statement
C18_Witness ==
    /\ pc = "lexed"
    /\ \E p \in 0..Len(lexemes) :
           LET s == Statement_parse(lexemes, p)
               r == CompoundStatements_parse(lexemes, p)
           IN  s.ok /\ s.pos > p + 2 /\ ~r.ok /\ r.pos = p

\* the label and the required tags of each terminal
TerminalLabel ==
    [Identifier |-> "{identifier}", Type |-> "{type}", Equals |-> "=",
     Semicolon |-> ";", Return |-> "return", Literal |-> "{literal}",
     LeftParen |-> "(", RightParen |-> ")", Plus |-> "+", Minus |-> "-",
     Multiply |-> "*", Divide |-> "/", Comma |-> ",", LeftCurly |-> "{",
     RightCurly |-> "}"]

TerminalTags ==
    [Identifier |-> {TokIdentifier},
     Type |-> {TokType("Int"), TokType("Float")},
     Equals |-> {TokSymbol("Equal")},
     Semicolon |-> {TokSymbol("Semicolon")},
     Return |-> {TokReturn},
     Literal |-> {TokLiteralInt, TokLiteralFloat},
     LeftParen |-> {TokSymbol("LeftParen")},
     RightParen |-> {TokSymbol("RightParen")},
     Plus |-> {TokSymbol("Plus")},
     Minus |-> {TokSymbol("Minus")},
     Multiply |-> {TokSymbol("Multiply")},
     Divide |-> {TokSymbol("Divide")},
     Comma |-> {TokSymbol("Comma")},
     LeftCurly |-> {TokSymbol("LeftCurly")},
     RightCurly |-> {TokSymbol("RightCurly")}]

(***************************************************************************)
(* C19: a terminal consumes exactly one token when the tag of the next     *)
(* token is its required tag (the cursor advances by one and the node      *)
(* carries that token's lexeme); otherwise it returns an error naming the  *)
(* expected label and the lexeme found, and consumes nothing.              *)
(***************************************************************************)
C19_TerminalMatcher ==
    Lexed =>
        \A T \in Terminals, p \in 0..(Len(lexemes) - 1) :
            LET r == ParseRule(T, lexemes, p)
                found == lexemes[p + 1]
            IN  IF found[1] \in TerminalTags[T]
                THEN /\ r.ok
                     /\ r.pos = p + 1
                     /\ r.node.token = found[1]
                     /\ r.node.lexeme = found[2]
                ELSE /\ ~r.ok
                     /\ r.pos = p
                     /\ r.err = ExpectedFound(TerminalLabel[T], found[2])

C19_Witness ==
    /\ pc = "lexed"
    /\ Len(lexemes) > 1
    /\ lexemes[1] = <<TokType("Int"), IntWord>>
    /\ Type_parse(lexemes, 0).pos = 1
    /\ Type_parse(lexemes, 0).node.lexeme = IntWord
    /\ Identifier_parse(lexemes, 0) = Err(0, ExpectedFound("{identifier}", IntWord))

\* the fields of each product rule in declared order: <<field, rule>>
ProductFields ==
    [FunctionDefinition |->
        << <<"type_", "Type">>, <<"function_name", "Identifier">>,
           <<"left_paren", "LeftParen">>, <<"parameters", "FunctionParameters">>,
           <<"right_paren", "RightParen">>, <<"left_curly", "LeftCurly">>,
           <<"compound_statements", "CompoundStatements">>,
           <<"right_curly", "RightCurly">> >>,
     FunctionParameter |-> << <<"type_", "Type">>, <<"identifier", "Identifier">> >>,
     AssignmentStatement |->
        << <<"lhs_identifier", "Identifier">>, <<"equals", "Equals">>,
           <<"expression", "Expression">> >>,
     ReturnStatement |-> << <<"return_", "Return">>, <<"expression", "Expression">> >>,
     TypecastExpression |->
        << <<"left_paren", "LeftParen">>, <<"type_", "Type">>,
           <<"right_paren", "RightParen">>, <<"ident", "Identifier">> >>,
     ArithmeticExpression |->
        << <<"lhs_term", "Term">>, <<"extend", "TermExtend">> >>,
     Term |-> << <<"factor", "Factor">>, <<"extend", "FactorExtend">> >>]

ProductLabel ==
    [FunctionDefinition |-> "Function Definition",
     FunctionParameter |-> "Function Parameter",
     AssignmentStatement |-> "Assignment Statement",
     ReturnStatement |-> "Return Statement",
     TypecastExpression |-> "Typecast Expression",
     ArithmeticExpression |-> "Arithmetic Expression",
     Term |-> "Term"]

\* the fields from the k-th on, parsed in order with the fork at `fork`: the
\* error of the first field that fails, or the nodes of all of them
RECURSIVE FieldsInOrder(_, _, _, _, _)
FieldsInOrder(fields, ts, fork, k, nodes) ==
    IF k > Len(fields) THEN [ok |-> TRUE, pos |-> fork, nodes |-> nodes, err |-> <<>>]
    ELSE LET r == ParseRule(fields[k][2], ts, fork)
         IN  IF r.ok
             THEN FieldsInOrder(fields, ts, r.pos, k + 1, Append(nodes, r.node))
             ELSE [ok |-> FALSE, pos |-> fork, nodes |-> <<>>, err |-> r.err]

\* rule R at cursor p does what its fields in order do: all succeed and the
\* fork is committed with the whole node, or the first failure is returned
\* and the cursor stays
ProductIsFieldsInOrder(R, p) ==
    LET r == ParseRule(R, lexemes, p)
        f == FieldsInOrder(ProductFields[R], lexemes, p, 1, <<>>)
    IN  IF f.ok
        THEN /\ r.ok
             /\ r.pos = f.pos
             /\ \A k \in 1..Len(ProductFields[R]) :
                    r.node[ProductFields[R][k][1]] = f.nodes[k]
        ELSE /\ ~r.ok
             /\ r.pos = p
             /\ r.node = <<>>
             /\ r.err = f.err

(***************************************************************************)
(* C20: a product rule parses its fields in declared order on a private    *)
(* fork; at the first failing field it returns that field's error, with no *)
(* partial node, and the fork is committed only after the last field       *)
(* succeeded.  As stated: at every cursor position.                        *)
(***************************************************************************)
C20_ProductRule ==
    Lexed =>
        \A R \in Products, p \in 0..Len(lexemes) : ProductIsFieldsInOrder(R, p)

(***************************************************************************)
(* C20, amended: the statement of C20 holds at every cursor position with  *)
(* a token left; on an exhausted stream the rule returns its own error     *)
(* "Expected `<rule label>`, but found nothing instead", not the error of  *)
(* its first field.                                                        *)
(***************************************************************************)
C20_ProductRuleAmended ==
    Lexed =>
        \A R \in Products :
            /\ \A p \in 0..(Len(lexemes) - 1) : ProductIsFieldsInOrder(R, p)
            /\ ParseRule(R, lexemes, Len(lexemes)) =
                   Err(Len(lexemes), ExpectedFoundNothing(ProductLabel[R]))

\* `x = (int` and the end of the statement: the typecast fails at its third
\* field after two tokens on its fork, and the assignment fails with the
\* error of its third field
C20_Witness ==
    /\ pc = "lexed"
    /\ \E p \in 0..(Len(lexemes) - 1) :
           /\ LeftParen_parse(lexemes, p).ok
           /\ Type_parse(lexemes, p + 1).ok
           /\ ~RightParen_parse(lexemes, p + 2).ok
           /\ TypecastExpression_parse(lexemes, p) =
                  Err(p, RightParen_parse(lexemes, p + 2).err)
    /\ \E p \in 0..(Len(lexemes) - 1) :
           /\ Equals_parse(lexemes, p + 1).ok
           /\ ~Expression_parse(lexemes, p + 2).ok
           /\ AssignmentStatement_parse(lexemes, p) =
                  Err(p, Expression_parse(lexemes, p + 2).err)

\* the alternatives of each sum rule in declared order: <<variant, rule>>
Sums == {"Statement", "Expression", "Factor"}

SumAlternatives ==
    [Statement |-> << <<"Assignment", "AssignmentStatement">>,
                      <<"Return", "ReturnStatement">> >>,
     Expression |-> << <<"Arithmetic", "ArithmeticExpression">>,
                       <<"Typecast", "TypecastExpression">> >>,
     Factor |-> << <<"Identifier", "Identifier">>, <<"Literal", "Literal">> >>]

\* the k-th alternative of sum rule S tried from cursor p, and the value the
\* sum returns when it commits to that alternative
Alternative(S, k, p) == ParseRule(SumAlternatives[S][k][2], lexemes, p)

Committed(S, k, p) ==
    Ok(Alternative(S, k, p).pos,
       [rule |-> S, variant |-> SumAlternatives[S][k][1],
        inner |-> Alternative(S, k, p).node])

(***************************************************************************)
(* C21: a sum rule tries its alternatives in declared order, each from the *)
(* caller's position; the result is the first alternative that succeeds,   *)
(* with its fork committed, whatever a later alternative would have done;  *)
(* and a sum that succeeds is one of its alternatives.                     *)
(***************************************************************************)
C21_SumFirstSuccess ==
    Lexed =>
        \A S \in Sums, p \in 0..Len(lexemes) :
            LET r == ParseRule(S, lexemes, p)
            IN  /\ Alternative(S, 1, p).ok => r = Committed(S, 1, p)
                /\ ~Alternative(S, 1, p).ok /\ Alternative(S, 2, p).ok
                       => r = Committed(S, 2, p)
                /\ r.ok => Alternative(S, 1, p).ok \/ Alternative(S, 2, p).ok

\* `x = ( int ) y`: the statement succeeds by its first alternative, and its
\* expression by the second after the first failed from the same position
C21_Witness ==
    /\ pc = "lexed"
    /\ \E p \in 0..Len(lexemes) :
           /\ Alternative("Statement", 1, p).ok
           /\ Alternative("Statement", 1, p).pos > p
           /\ Statement_parse(lexemes, p) = Committed("Statement", 1, p)
    /\ \E p \in 0..Len(lexemes) :
           /\ ~Alternative("Expression", 1, p).ok
           /\ Alternative("Expression", 2, p).ok
           /\ Alternative("Expression", 2, p).pos = p + 4
           /\ Expression_parse(lexemes, p) = Committed("Expression", 2, p)
\* the label of each sum rule and of each of its alternatives
SumLabel == [Statement |-> "Statement", Expression |-> "Expression", Factor |-> "Factor"]

AlternativeLabels ==
    [Statement |-> <<"Assignment Statement", "Return Statement">>,
     Expression |-> <<"Arithmetic Expression", "Typecast Expression">>,
     Factor |-> <<"{identifier}", "{literal}">>]

AllAlternativesFail(S, p) == ~Alternative(S, 1, p).ok /\ ~Alternative(S, 2, p).ok

\* the one error of a sum none of whose alternatives succeeded: it names both
\* alternatives and the sum, and carries neither alternative's own error
CombinedError(S) ==
    ExpectedEither(AlternativeLabels[S][1], AlternativeLabels[S][2], SumLabel[S])

RECURSIVE DelimitedItemsAt(_, _, _, _, _, _)
DelimitedItemsAt(E, D, items, k, q, end) ==
    LET e == ParseRule(E, lexemes, q)
        d == ParseRule(D, lexemes, e.pos)
    IN  /\ e.ok
        /\ items[k][1] = e.node
        /\ IF k = Len(items)
           THEN ~d.ok /\ items[k][2] = NoneNode /\ end = e.pos
           ELSE /\ d.ok
                /\ items[k][2] = d.node
                /\ DelimitedItemsAt(E, D, items, k + 1, d.pos, end)

(***************************************************************************)
(* C23: Delimited<FunctionParameter, Comma>, successes.  If the first      *)
(* parameter fails the result is Ok with an empty list and the cursor      *)
(* unmoved.  If a comma is missing after a parameter, the list ends there: *)
(* after one parameter with that one item, after `E , E` with exactly two, *)
(* the last without delimiter, the cursor right after the last parameter.  *)
(* Every non-empty list returned is made of the parameters and commas      *)
(* parsed in turn, and ends where the comma was missing.                   *)
(***************************************************************************)
C23_DelimitedSuccess ==
    Lexed =>
        \A p \in 0..Len(lexemes) :
            LET r == FunctionParameters_parse(lexemes, p)
                e1 == FunctionParameter_parse(lexemes, p)
                d1 == Comma_parse(lexemes, e1.pos)
                e2 == FunctionParameter_parse(lexemes, d1.pos)
                d2 == Comma_parse(lexemes, e2.pos)
            IN  /\ ~e1.ok => r = Ok(p, [rule |-> "Delimited", items |-> <<>>])
                /\ e1.ok /\ ~d1.ok =>
                       r = Ok(e1.pos, [rule |-> "Delimited",
                                       items |-> << <<e1.node, NoneNode>> >>])
                /\ e1.ok /\ d1.ok /\ e2.ok /\ ~d2.ok =>
                       r = Ok(e2.pos, [rule |-> "Delimited",
                                       items |-> << <<e1.node, d1.node>>,
                                                    <<e2.node, NoneNode>> >>])
                /\ r.ok /\ r.node.items # <<>> =>
                       DelimitedItemsAt("FunctionParameter", "Comma",
                                        r.node.items, 1, p, r.pos)

\* `( int x , float y )`: from the cursor after `(` the list has two items and
\* the cursor rests after `y`, five tokens on; from the cursor at `)` the list
\* is empty and the cursor does not move
C23_Witness ==
    /\ pc = "lexed"
    /\ \E p \in 1..(Len(lexemes) - 6) :
           /\ LeftParen_parse(lexemes, p - 1).ok
           /\ FunctionParameters_parse(lexemes, p).ok
           /\ FunctionParameters_parse(lexemes, p).pos = p + 5
           /\ Len(FunctionParameters_parse(lexemes, p).node.items) = 2
           /\ FunctionParameters_parse(lexemes, p).node.items[1][2] # NoneNode
           /\ FunctionParameters_parse(lexemes, p).node.items[2][2] = NoneNode
           /\ RightParen_parse(lexemes, p + 5).ok
           /\ FunctionParameters_parse(lexemes, p + 5) =
                  Ok(p + 5, [rule |-> "Delimited", items |-> <<>>])

\* from cursor q on, items and delimiters alternate up to a delimiter after
\* which the item fails; DanglingError is the error of that item
RECURSIVE Dangling(_, _, _)
Dangling(E, D, q) ==
    LET e == ParseRule(E, lexemes, q)
        d == ParseRule(D, lexemes, e.pos)
    IN  /\ e.ok
        /\ d.ok
        /\ \/ ~ParseRule(E, lexemes, d.pos).ok
           \/ Dangling(E, D, d.pos)

RECURSIVE DanglingError(_, _, _)
DanglingError(E, D, q) ==
    LET d == ParseRule(D, lexemes, ParseRule(E, lexemes, q).pos)
        e == ParseRule(E, lexemes, d.pos)
    IN  IF e.ok THEN DanglingError(E, D, d.pos) ELSE e.err

(***************************************************************************)
(* C24: Delimited<FunctionParameter, Comma>, dangling delimiter.  Whenever *)
(* a comma has been parsed and the parameter after it fails, the list      *)
(* returns Err, carrying the error of that parameter, and the caller's     *)
(* cursor is where it was before the list; and this is the only case in    *)
(* which the list returns Err.                                             *)
(***************************************************************************)
C24_DelimitedDangling ==
    Lexed =>
        \A p \in 0..Len(lexemes) :
            LET r == FunctionParameters_parse(lexemes, p)
            IN  IF Dangling("FunctionParameter", "Comma", p)
                THEN r = Err(p, WhileParsing(
                                  Delimited_parse_label("FunctionParameter", "Comma"),
                                  DanglingError("FunctionParameter", "Comma", p)))
                ELSE r.ok

\* `( int x , )`: the list fails from the cursor after `(`, three tokens
\* before the `)` at which the second parameter was tried
C24_Witness ==
    /\ pc = "lexed"
    /\ \E p \in 1..(Len(lexemes) - 4) :
           /\ LeftParen_parse(lexemes, p - 1).ok
           /\ FunctionParameter_parse(lexemes, p).ok
           /\ Comma_parse(lexemes, p + 2).ok
           /\ RightParen_parse(lexemes, p + 3).ok
           /\ ~FunctionParameters_parse(lexemes, p).ok
           /\ FunctionParameters_parse(lexemes, p).pos = p

\* the structure Delimited's items are documented to have
DelimitedShape(items) ==
    \A k \in 1..Len(items) : (items[k][2] = NoneNode) <=> (k = Len(items))

(***************************************************************************)
(* C25: every Delimited value returned by Delimited::parse is empty, or    *)
(* exactly its last item carries no delimiter and every earlier item       *)
(* carries one; so neither assertion of Delimited::lexeme_signature fails  *)
(* on a parsed value.                                                      *)
(***************************************************************************)
C25_DelimitedShape ==
    Lexed =>
        \A p \in 0..Len(lexemes) :
            LET r == FunctionParameters_parse(lexemes, p)
            IN  r.ok => /\ DelimitedShape(r.node.items)
                        /\ Delimited_lexeme_signature(r.node) # Panic

\* a parsed list of two parameters: the first carries its comma, the second
\* none, and the signature is built without a failed assertion
C25_Witness ==
    /\ pc = "lexed"
    /\ \E p \in 0..Len(lexemes) :
           LET r == FunctionParameters_parse(lexemes, p)
           IN  /\ r.ok
               /\ Len(r.node.items) = 2
               /\ r.node.items[1][2] = [rule |-> ",", token |-> TokSymbol("Comma"),
                                        lexeme |-> B(<<",">>)]
               /\ r.node.items[2][2] = NoneNode
               /\ Len(Delimited_lexeme_signature(r.node)) > 4

\* from cursor q on, items and delimiters alternate up to an item after which
\* the delimiter fails; MissingDelimiterError is the error of that delimiter
RECURSIVE MissingDelimiter(_, _, _)
MissingDelimiter(E, D, q) ==
    LET e == ParseRule(E, lexemes, q)
        d == ParseRule(D, lexemes, e.pos)
    IN  e.ok /\ (~d.ok \/ MissingDelimiter(E, D, d.pos))

RECURSIVE MissingDelimiterError(_, _, _)
MissingDelimiterError(E, D, q) ==
    LET d == ParseRule(D, lexemes, ParseRule(E, lexemes, q).pos)
    IN  IF d.ok THEN MissingDelimiterError(E, D, d.pos) ELSE d.err

(***************************************************************************)
(* C26: Terminated<Statement, Semicolon>, mandatory delimiter.  Whenever a *)
(* statement has been parsed and the semicolon after it fails, at the end  *)
(* of the token stream included, the list returns Err, carrying the error  *)
(* of that semicolon, and the caller's cursor is unchanged; in every other *)
(* case the list returns Ok.                                               *)
(***************************************************************************)
C26_TerminatedMandatory ==
    Lexed =>
        \A p \in 0..Len(lexemes) :
            LET r == CompoundStatements_parse(lexemes, p)
            IN  IF MissingDelimiter("Statement", "Semicolon", p)
                THEN r = Err(p, WhileParsing(
                                  Terminated_parse_label("Statement", "Semicolon"),
                                  MissingDelimiterError("Statement", "Semicolon", p)))
                ELSE r.ok

\* `{ x = 1 ; y = 2` and nothing more: the second statement is parsed, the
\* semicolon after it is missing at the end of the token stream, and the list
\* fails from the cursor after `{`
C26_Witness ==
    /\ pc = "lexed"
    /\ \E p \in 1..(Len(lexemes) - 7) :
           /\ LeftCurly_parse(lexemes, p - 1).ok
           /\ Statement_parse(lexemes, p).ok
           /\ Semicolon_parse(lexemes, p + 3).ok
           /\ Statement_parse(lexemes, p + 4).ok
           /\ Statement_parse(lexemes, p + 4).pos = p + 7
           /\ ~Semicolon_parse(lexemes, p + 7).ok
           /\ ~CompoundStatements_parse(lexemes, p).ok
           /\ CompoundStatements_parse(lexemes, p).pos = p
           /\ p + 7 = Len(lexemes)

\* items[k..] are what E and D parse from cursor q on: every item is an E
\* followed by a D, after the last of them E fails, and the cursor ends at
\* `end`, right after the last delimiter
RECURSIVE TerminatedItemsAt(_, _, _, _, _, _)
TerminatedItemsAt(E, D, items, k, q, end) ==
    LET e == ParseRule(E, lexemes, q)
        d == ParseRule(D, lexemes, e.pos)
    IN  /\ e.ok
        /\ d.ok
        /\ items[k] = <<e.node, d.node>>
        /\ IF k = Len(items)
           THEN ~ParseRule(E, lexemes, d.pos).ok /\ end = d.pos
           ELSE TerminatedItemsAt(E, D, items, k + 1, d.pos, end)

(***************************************************************************)
(* C27: Terminated<Statement, Semicolon>, successes.  If the first         *)
(* statement fails the result is Ok with an empty list and the cursor      *)
(* unmoved.  If a statement fails after k >= 1 complete (statement,        *)
(* semicolon) pairs the result is Ok with exactly those k items and the    *)
(* cursor right after the k-th semicolon: shown for k = 1 and k = 2, and   *)
(* every non-empty list returned is made of the pairs parsed in turn.      *)
(***************************************************************************)
C27_TerminatedSuccess ==
    Lexed =>
        \A p \in 0..Len(lexemes) :
            LET r == CompoundStatements_parse(lexemes, p)
                e1 == Statement_parse(lexemes, p)
                d1 == Semicolon_parse(lexemes, e1.pos)
                e2 == Statement_parse(lexemes, d1.pos)
                d2 == Semicolon_parse(lexemes, e2.pos)
                e3 == Statement_parse(lexemes, d2.pos)
            IN  /\ ~e1.ok => r = Ok(p, [rule |-> "Terminated", items |-> <<>>])
                /\ e1.ok /\ d1.ok /\ ~e2.ok =>
                       r = Ok(d1.pos, [rule |-> "Terminated",
                                       items |-> << <<e1.node, d1.node>> >>])
                /\ e1.ok /\ d1.ok /\ e2.ok /\ d2.ok /\ ~e3.ok =>
                       r = Ok(d2.pos, [rule |-> "Terminated",
                                       items |-> << <<e1.node, d1.node>>,
                                                    <<e2.node, d2.node>> >>])
                /\ r.ok /\ r.node.items # <<>> =>
                       TerminatedItemsAt("Statement", "Semicolon",
                                         r.node.items, 1, p, r.pos)

\* `{ x = 1 ; y = 2 ; }`: from the cursor after `{` the list has two
\* statements and the cursor rests at `}`, eight tokens on; from there the
\* list is empty and the cursor does not move
C27_Witness ==
    /\ pc = "lexed"
    /\ \E p \in 1..(Len(lexemes) - 9) :
           /\ LeftCurly_parse(lexemes, p - 1).ok
           /\ CompoundStatements_parse(lexemes, p).ok
           /\ CompoundStatements_parse(lexemes, p).pos = p + 8
           /\ Len(CompoundStatements_parse(lexemes, p).node.items) = 2
           /\ RightCurly_parse(lexemes, p + 8).ok
           /\ CompoundStatements_parse(lexemes, p + 8) =
                  Ok(p + 8, [rule |-> "Terminated", items |-> <<>>])

\* the five tokens from cursor p on are `factor - factor - factor`
SubtractionChainAt(p) ==
    /\ p + 5 <= Len(lexemes)
    /\ Factor_parse(lexemes, p).ok
    /\ Minus_parse(lexemes, p + 1).ok
    /\ Factor_parse(lexemes, p + 2).ok
    /\ Minus_parse(lexemes, p + 3).ok
    /\ Factor_parse(lexemes, p + 4).ok

(***************************************************************************)
(* C28: right-recursive associativity.  Parsing the tokens of `a - b - c`  *)
(* as an ArithmeticExpression consumes all five tokens, and the tree nests *)
(* to the right: the left operand of the first subtraction is `a` and its  *)
(* right operand is the whole of `b - c`.                                  *)
(***************************************************************************)
C28_RightAssociative ==
    Lexed =>
        \A p \in 0..Len(lexemes) :
            SubtractionChainAt(p) =>
                LET r == ArithmeticExpression_parse(lexemes, p)
                IN  /\ r.ok
                    /\ r.pos = p + 5
                    /\ Term_lexeme_signature(r.node.lhs_term) = lexemes[p + 1][2]
                    /\ r.node.extend # NoneNode
                    /\ r.node.extend.variant = "Subtract"
                    /\ Term_lexeme_signature(r.node.extend.term) =
                           lexemes[p + 3][2] \o SP \o lexemes[p + 4][2]
                               \o SP \o lexemes[p + 5][2]

\* the number of pairs a buffer has yielded, and the pair its peek() returns
Position(b) == b.iter - (IF b.peeked # <<>> /\ b.peeked[1] # <<>> THEN 1 ELSE 0)

Peeked(ts, b) == ParseBuffer_peek(ts, b).item

(***************************************************************************)
(* C29: forking yields an independent position over the same token stream. *)
(* Right after fork() the fork and the original are at the same position   *)
(* and peek the same token; peek() and next() on the fork leave the        *)
(* original's position and peeked token as they were; the commit           *)
(* `*buffer = fork` puts the original exactly at the fork's position; and  *)
(* the original's position changes by nothing but its own new() and        *)
(* next() and a commit.                                                    *)
(***************************************************************************)
C29_ForkIndependent ==
    /\ [][Fork => /\ Position(forked') = Position(buffer')
                  /\ Peeked(lexemes, forked') = Peeked(lexemes, buffer')]_vars
    /\ [][Fork_peek \/ Fork_next =>
              /\ Position(buffer') = Position(buffer)
              /\ Peeked(lexemes, buffer') = Peeked(lexemes, buffer)]_vars
    /\ [][Commit => /\ Position(buffer') = Position(forked)
                    /\ Peeked(lexemes, buffer') = Peeked(lexemes, forked)]_vars
    /\ [][Position(buffer') # Position(buffer) => New \/ Buffer_next \/ Commit]_vars

\* the original has peeked its second token and was then forked; two next()
\* on the fork later the fork has yielded three tokens, the last one just now,
\* and the original is where it was
C29_Witness ==
    /\ pc = "parsing"
    /\ forked # NoBuffer
    /\ Position(buffer) = 1
    /\ buffer.peeked = << <<lexemes[2]>> >>
    /\ Position(forked) = 3
    /\ item = <<lexemes[3]>>

\* the token stream is built
Built == pc \in {"lexed", "parsing"}

\* what a buffer that has yielded k pairs yields next
ItemAt(k) == IF k < Len(lexemes) THEN <<lexemes[k + 1]>> ELSE <<>>

(***************************************************************************)
(* C30: the TokenStream lifecycle.  Before the first access nothing is     *)
(* built; once built the stream is what the tokenizer returns for the      *)
(* whole input; it is never modified and never built again; and every      *)
(* new, fork, peek, next and commit made afterwards sees that one          *)
(* sequence: a new buffer is at its start, and what peek and next return   *)
(* from a buffer at position k is its pair number k + 1, or None past the  *)
(* end.                                                                    *)
(***************************************************************************)
C30_TokenStreamLifecycle ==
    /\ [](pc = "main" => lexemes = <<>> /\ pos = 0)
    /\ [](Built => /\ pos = Len(input)
                   /\ get_lexemes(input) = [fatal |-> FALSE, lexemes |-> lexemes])
    /\ [][Built => Built' /\ lexemes' = lexemes]_vars
    /\ [][New => Position(buffer') = 0 /\ Peeked(lexemes', buffer') = ItemAt(0)]_vars
    /\ [][Buffer_peek \/ Buffer_next => item' = ItemAt(Position(buffer))]_vars
    /\ [][Fork_peek \/ Fork_next => item' = ItemAt(Position(forked))]_vars
    /\ [][Fork \/ Commit => lexemes' = lexemes]_vars

\* `x = 1 ;`: a fork taken at the start has yielded all four pairs, the last
\* one just now, while the original still peeks the first one
C30_Witness ==
    /\ pc = "parsing"
    /\ lexemes = get_lexemes(input).lexemes
    /\ Len(lexemes) = 4
    /\ forked # NoBuffer
    /\ Position(forked) = 4
    /\ item = <<lexemes[4]>>
    /\ Position(buffer) = 0
    /\ Peeked(lexemes, buffer) = <<lexemes[1]>>

\* ParseDisplay::lexeme_signature of a node of any rule
NodeSignature(node) ==
    CASE node.rule = "FunctionDefinition" -> FunctionDefinition_lexeme_signature(node)
      [] node.rule = "FunctionParameter" -> FunctionParameter_lexeme_signature(node)
      [] node.rule = "AssignmentStatement" -> AssignmentStatement_lexeme_signature(node)
      [] node.rule = "ReturnStatement" -> ReturnStatement_lexeme_signature(node)
      [] node.rule = "TypecastExpression" -> TypecastExpression_lexeme_signature(node)
      [] node.rule = "ArithmeticExpression" ->
             ArithmeticExpression_lexeme_signature(node)
      [] node.rule = "Term" -> Term_lexeme_signature(node)
      [] node.rule = "Statement" -> Statement_lexeme_signature(node)
      [] node.rule = "Expression" -> Expression_lexeme_signature(node)
      [] node.rule = "Factor" -> Factor_lexeme_signature(node)
      [] node.rule = "TermExtend" -> TermExtend_lexeme_signature(node)
      [] node.rule = "FactorExtend" -> FactorExtend_lexeme_signature(node)
      [] node.rule = "Delimited" -> Delimited_lexeme_signature(node)
      [] node.rule = "Terminated" -> Terminated_lexeme_signature(node)
      [] OTHER -> terminal_lexeme_signature(node)

StripSpaces(bytes) == SelectSeq(bytes, LAMBDA c : c # 32)

\* the lexemes of the tokens from cursor p up to cursor q, concatenated
Consumed(p, q) == ConcatLexemes(SubSeq(lexemes, p + 1, q))

\* rule E parsed from cursor p returns a node whose signature, spaces removed,
\* is the tokens it consumed
SignatureIsConsumed(E, p) ==
    LET r == ParseRule(E, lexemes, p)
    IN  r.ok /\ r.node # NoneNode =>
            StripSpaces(NodeSignature(r.node)) = Consumed(p, r.pos)

(***************************************************************************)
(* C31: for every parse-tree node, lexeme_signature is the concatenation,  *)
(* in source order, of the lexemes of the tokens consumed to build the     *)
(* node, with nothing left out or substituted and only spaces inserted:    *)
(* with the spaces removed it is exactly the consumed lexemes.             *)
(***************************************************************************)
C31_SignatureIsLexemes ==
    Lexed => \A E \in Rules, p \in 0..Len(lexemes) : SignatureIsConsumed(E, p)

\* a `*` or `/`, and a `+` or `-`, at cursor q
MultiplicativeAt(q) == Multiply_parse(lexemes, q).ok \/ Divide_parse(lexemes, q).ok

AdditiveAt(q) == Plus_parse(lexemes, q).ok \/ Minus_parse(lexemes, q).ok

\* the shape of a Term parsed from cursor p: one Factor, then nothing or one
\* operator and one Factor
TermShape(p) ==
    LET t == Term_parse(lexemes, p)
        f == Factor_parse(lexemes, p)
    IN  t.ok =>
            /\ f.ok
            /\ t.node.factor = f.node
            /\ IF t.node.extend = NoneNode
               THEN t.pos = p + 1
               ELSE /\ MultiplicativeAt(p + 1)
                    /\ t.node.extend.factor = Factor_parse(lexemes, p + 2).node
                    /\ Factor_parse(lexemes, p + 2).ok
                    /\ t.pos = p + 3

(***************************************************************************)
(* C32: the shape of the arithmetic grammar.  A Term is exactly one Factor *)
(* and at most one FactorExtend, an operator and one single Factor; an     *)
(* ArithmeticExpression is exactly one Term and at most one TermExtend, an *)
(* operator and one full Term.  So an ArithmeticExpression consumes at     *)
(* most 7 tokens, and after `a * b` a further `*` or `/` is left           *)
(* unconsumed by the term and by the expression.                           *)
(***************************************************************************)
C32_ArithmeticShape ==
    Lexed =>
        \A p \in 0..Len(lexemes) :
            LET a == ArithmeticExpression_parse(lexemes, p)
                t == Term_parse(lexemes, p)
            IN  /\ TermShape(p)
                /\ a.ok =>
                       /\ t.ok
                       /\ a.node.lhs_term = t.node
                       /\ IF a.node.extend = NoneNode
                          THEN a.pos = t.pos
                          ELSE /\ AdditiveAt(t.pos)
                               /\ Term_parse(lexemes, t.pos + 1).ok
                               /\ a.node.extend.term =
                                      Term_parse(lexemes, t.pos + 1).node
                               /\ a.pos = Term_parse(lexemes, t.pos + 1).pos
                       /\ a.pos - p <= 7
                /\ t.ok /\ t.pos = p + 3 /\ MultiplicativeAt(p + 3) =>
                       a.ok /\ a.pos = p + 3

\* `a * b - c / 2 / 1`: the expression takes seven tokens and the second `/`
\* is left unconsumed, by the term that starts at `c` as well
C32_Witness ==
    /\ pc = "lexed"
    /\ \E p \in 0..Len(lexemes) :
           /\ ArithmeticExpression_parse(lexemes, p).ok
           /\ ArithmeticExpression_parse(lexemes, p).pos = p + 7
           /\ Divide_parse(lexemes, p + 7).ok
           /\ Factor_parse(lexemes, p + 8).ok
           /\ Term_parse(lexemes, p + 4).pos = p + 7
           /\ ArithmeticExpression_parse(lexemes, p + 4).pos = p + 7

\* the two optional extensions: whether the operator is at cursor q, and the
\* operand each of them requires after it
Extensions == {"TermExtend", "FactorExtend"}

OperatorAt(X, q) == IF X = "TermExtend" THEN AdditiveAt(q) ELSE MultiplicativeAt(q)

Operand(X, q) ==
    IF X = "TermExtend" THEN Term_parse(lexemes, q) ELSE Factor_parse(lexemes, q)

(***************************************************************************)
(* C33: the optional extensions are optional on the operator only.  With   *)
(* the stream exhausted or another token next, TermExtend and FactorExtend *)
(* return Ok(None) and consume nothing.  With their operator next, they    *)
(* return what the operand does: its error, the caller's cursor unmoved,   *)
(* or the extension.  So a Term followed by `+` or `-` and no Term makes   *)
(* the enclosing ArithmeticExpression fail.                                *)
(***************************************************************************)
C33_ExtensionOptionalOnOperator ==
    Lexed =>
        \A p \in 0..Len(lexemes) :
            /\ \A X \in Extensions :
                   LET r == ParseRule(X, lexemes, p)
                       o == Operand(X, p + 1)
                   IN  IF ~OperatorAt(X, p) THEN r = Ok(p, NoneNode)
                       ELSE IF ~o.ok THEN r = Err(p, o.err)
                       ELSE r.ok /\ r.node # NoneNode /\ r.pos = o.pos
            /\ LET t == Term_parse(lexemes, p)
               IN  t.ok /\ AdditiveAt(t.pos) /\ ~Term_parse(lexemes, t.pos + 1).ok =>
                       ArithmeticExpression_parse(lexemes, p) =
                           Err(p, Term_parse(lexemes, t.pos + 1).err)

\* `x * 2 + ;`: TermExtend fails at the `+`, its cursor unmoved, and so does
\* the expression that starts at `x`; at the `;` both extensions are None
C33_Witness ==
    /\ pc = "lexed"
    /\ \E p \in 0..Len(lexemes) :
           /\ Term_parse(lexemes, p).ok
           /\ Term_parse(lexemes, p).pos = p + 3
           /\ Plus_parse(lexemes, p + 3).ok
           /\ Semicolon_parse(lexemes, p + 4).ok
           /\ ~TermExtend_parse(lexemes, p + 3).ok
           /\ TermExtend_parse(lexemes, p + 3).pos = p + 3
           /\ ~ArithmeticExpression_parse(lexemes, p).ok
           /\ TermExtend_parse(lexemes, p + 4) = Ok(p + 4, NoneNode)
           /\ FactorExtend_parse(lexemes, p + 4) = Ok(p + 4, NoneNode)

\* the cursor at the end of the token stream
End == Len(lexemes)

(***************************************************************************)
(* C34: at exhausted input.  With the cursor at the end of the token       *)
(* stream every terminal, product and sum rule returns the error "expected *)
(* <its own label>, found nothing"; TermExtend and FactorExtend return     *)
(* Ok(None); Delimited and Terminated return Ok with an empty list; and    *)
(* in every case the cursor stays at the end.                              *)
(***************************************************************************)
C34_ExhaustedInput ==
    Lexed =>
        /\ \A T \in Terminals :
               ParseRule(T, lexemes, End) =
                   Err(End, ExpectedFoundNothing(TerminalLabel[T]))
        /\ \A R \in Products :
               ParseRule(R, lexemes, End) =
                   Err(End, ExpectedFoundNothing(ProductLabel[R]))
        /\ \A S \in Sums :
               ParseRule(S, lexemes, End) = Err(End, ExpectedFoundNothing(SumLabel[S]))
        /\ \A X \in Extensions : ParseRule(X, lexemes, End) = Ok(End, NoneNode)
        /\ FunctionParameters_parse(lexemes, End) =
               Ok(End, [rule |-> "Delimited", items |-> <<>>])
        /\ CompoundStatements_parse(lexemes, End) =
               Ok(End, [rule |-> "Terminated", items |-> <<>>])

\* a stream of several tokens, its cursor at the end: a Term fails there with
\* its own label, not Factor's, and the two lists are empty
C34_Witness ==
    /\ pc = "lexed"
    /\ End > 3
    /\ Term_parse(lexemes, End) = Err(End, ExpectedFoundNothing("Term"))
    /\ Factor_parse(lexemes, End) = Err(End, ExpectedFoundNothing("Factor"))
    /\ FunctionParameters_parse(lexemes, End).ok
    /\ CompoundStatements_parse(lexemes, End).node.items = <<>>

(***************************************************************************)
(* C35: the tokenizer's buffer invariant.  After every tick of a byte      *)
(* sequence that hits no fatal error the lexeme buffer is empty exactly    *)
(* when the state is ScrollToNext; every tick that returns tokens leaves   *)
(* the machine reset, in ScrollToNext with an empty buffer; and every      *)
(* emitted lexeme is non-empty.                                            *)
(***************************************************************************)
C35_BufferInvariant ==
    pc # "exit" =>
        /\ (lexeme = <<>>) <=> (state = "ScrollToNext")
        /\ Ticked /\ out # <<>> => state = "ScrollToNext" /\ lexeme = <<>>
        /\ \A k \in 1..Len(lexemes) : lexemes[k][2] # <<>>

\* a tick in a state with a pending lexeme returned two pairs, the pending
\* lexeme first, and left the machine reset
C35_Witness ==
    /\ pc = "lexing"
    /\ Ticked
    /\ call.state # "ScrollToNext"
    /\ call.lexeme # <<>>
    /\ Len(out) = 2
    /\ out[1][2] = call.lexeme
    /\ state = "ScrollToNext"
    /\ lexeme = <<>>

\* the state a byte starts a lexeme in when the machine is idle
PrefixStart ==
    105 :> "MaybeTypeInt2" @@ 102 :> "MaybeTypeFloat2" @@ 114 :> "MaybeKeywordReturn2"

\* the most recent tick was made in ScrollToNext, on a byte that starts the
\* accumulation of a lexeme in state s: nothing is emitted
Started(s) == out = <<>> /\ state = s /\ lexeme = <<call.c>> /\ pc = "lexing"

(***************************************************************************)
(* C36: dispatch in the idle state.  In ScrollToNext a punctuation byte    *)
(* other than underscore, `.` included, at once emits exactly one (Symbol, *)
(* that character) pair and leaves the machine idle with an empty buffer;  *)
(* an underscore or a letter other than `i`, `f`, `r` starts Identifier;   *)
(* `i`, `f`, `r` enter the prefix states of int, float, return; a digit    *)
(* starts NumberDigit; and none of these emits anything.                   *)
(***************************************************************************)
C36_IdleDispatch ==
    Ticked /\ call.state = "ScrollToNext" =>
        LET c == call.c
        IN  /\ c \in DOMAIN SymbolKind /\ c # 95 =>
                   /\ out = << <<TokSymbol(SymbolKind[c]), <<c>> >> >>
                   /\ state = "ScrollToNext"
                   /\ lexeme = <<>>
                   /\ pc = "lexing"
            /\ c \in DOMAIN PrefixStart => Started(PrefixStart[c])
            /\ c = 95 \/ (ClassOfByte(c) = Letter /\ c \notin DOMAIN PrefixStart) =>
                   Started("Identifier")
            /\ ClassOfByte(c) = Digit => Started("NumberDigit")

\* the byte `.` ticked in the idle state: one (Symbol(Period), ".") pair, and
\* the machine idle again
C36_Witness ==
    /\ Ticked
    /\ call = [state |-> "ScrollToNext", lexeme |-> <<>>, c |-> 46]
    /\ out = << <<TokSymbol("Period"), <<46>> >> >>
    /\ state = "ScrollToNext"
    /\ lexeme = <<>>

\* the children of a node, left to right
Children(node) ==
    IF node = NoneNode THEN <<>>
    ELSE IF node.rule \in Products
    THEN [k \in 1..Len(ProductFields[node.rule]) |->
              node[ProductFields[node.rule][k][1]]]
    ELSE IF node.rule \in Sums THEN <<node.inner>>
    ELSE IF node.rule = "TermExtend" THEN <<node.op, node.term>>
    ELSE IF node.rule = "FactorExtend" THEN <<node.op, node.factor>>
    ELSE IF node.rule \in {"Delimited", "Terminated"}
    THEN [k \in 1..(2 * Len(node.items)) |-> node.items[(k + 1) \div 2][2 - (k % 2)]]
    ELSE <<>>

IsLeaf(node) == node # NoneNode /\ "lexeme" \in DOMAIN node

\* the lexemes of the terminal leaves of a node, left to right
RECURSIVE Leaves(_)
RECURSIVE LeavesOfAll(_, _)
Leaves(node) ==
    IF IsLeaf(node) THEN <<node.lexeme>> ELSE LeavesOfAll(Children(node), 1)

LeavesOfAll(nodes, k) ==
    IF k > Len(nodes) THEN <<>>
    ELSE Leaves(nodes[k]) \o LeavesOfAll(nodes, k + 1)

(***************************************************************************)
(* C37: the consumed tokens are the tree's leaves.  Whenever a rule's      *)
(* parse returns Ok the cursor has not moved backwards, it has advanced by *)
(* exactly the number of terminal leaves of the returned node, the         *)
(* delimiters of lists included, and the lexemes of the leaves from left   *)
(* to right are the lexemes of the tokens between the old and the new      *)
(* cursor.                                                                 *)
(***************************************************************************)
C37_ConsumedAreLeaves ==
    Lexed =>
        \A E \in Rules, p \in 0..Len(lexemes) :
            LET r == ParseRule(E, lexemes, p)
            IN  r.ok =>
                    /\ r.pos >= p
                    /\ Len(Leaves(r.node)) = r.pos - p
                    /\ Leaves(r.node) = [k \in 1..(r.pos - p) |-> lexemes[p + k][2]]

\* a whole function with two parameters and a statement was parsed: its
\* leaves are all the tokens of the stream, the comma and the semicolon
\* among them
C37_Witness ==
    /\ pc = "parsed"
    /\ root.ok
    /\ root.pos = Len(lexemes)
    /\ Len(root.node.parameters.items) = 2
    /\ Len(root.node.compound_statements.items) = 1
    /\ Len(Leaves(root.node)) = Len(lexemes)
    /\ Len(lexemes) > 16

\* the first n tokens of the stream are a complete function definition
FunctionPrefix(n) ==
    LET r == FunctionDefinition_parse(SubSeq(lexemes, 1, n), 0)
    IN  r.ok /\ r.pos = n

(***************************************************************************)
(* C38: the top-level parse accepts a prefix.  FunctionDefinition::parse   *)
(* as driven by main succeeds whenever the token stream begins with a      *)
(* complete function definition, with the node of that definition and the *)
(* cursor right after its `}`; the tokens that remain are left unconsumed  *)
(* and make no error.                                                      *)
(***************************************************************************)
C38_PrefixAccepted ==
    pc = "parsed" =>
        \A n \in 0..Len(lexemes) :
            FunctionPrefix(n) =>
                root = Ok(n, FunctionDefinition_parse(SubSeq(lexemes, 1, n), 0).node)

\* `int f ( ) { return x ; } x = 1`: main's parse succeeded with the cursor
\* after the `}`, three tokens before the end
C38_Witness ==
    /\ pc = "parsed"
    /\ Len(lexemes) = 12
    /\ FunctionPrefix(9)
    /\ root.ok
    /\ root.pos = 9
    /\ root.err = <<>>

\* the two lists of the grammar: <<list rule, E, D>>
Lists ==
    { <<"FunctionParameters", "FunctionParameter", "Comma">>,
      <<"CompoundStatements", "Statement", "Semicolon">> }

\* one iteration of a list's loop started with the fork at q: when its E and
\* its D both succeed, the fork has advanced by at least two tokens
IterationAdvances(E, D, q) ==
    LET e == ParseRule(E, lexemes, q)
        d == ParseRule(D, lexemes, e.pos)
    IN  /\ e.ok => e.pos >= q + 1
        /\ e.ok /\ d.ok => d.pos >= e.pos + 1 /\ d.pos >= q + 2

(***************************************************************************)
(* C39: parsing always terminates.  On every token stream main reaches the *)
(* end of FunctionDefinition::parse, with Ok or with Err, unless the       *)
(* tokenizer has exited before.  Each iteration of the Delimited and       *)
(* Terminated loops advances the fork by at least two tokens, one E and    *)
(* one D, so a list returned from cursor p has no more items than half the *)
(* tokens there are from p on.                                             *)
(***************************************************************************)
C39_ParsingTerminates ==
    /\ <>(pc \in {"parsed", "exit"})
    /\ [](Lexed =>
            \A L \in Lists, p \in 0..Len(lexemes) :
                /\ IterationAdvances(L[2], L[3], p)
                /\ LET r == ParseRule(L[1], lexemes, p)
                   IN  r.ok => 2 * Len(r.node.items) <= r.pos - p + 1)

\* `{ x = 1 ; y = 2 ; }` parsed to the end: the loop of Terminated made two
\* iterations of four tokens each and stopped at the `}`
C39_Witness ==
    /\ pc = "parsed"
    /\ root.ok
    /\ Len(root.node.compound_statements.items) = 2
    /\ \E p \in 0..Len(lexemes) :
           /\ LeftCurly_parse(lexemes, p).ok
           /\ CompoundStatements_parse(lexemes, p + 1).pos = p + 9

====
